---------------------------- MODULE Spec2Model ----------------------------
(***************************************************************************)
(* Request pipeline, validation adapter, error model and database error   *)
(* classifier of the go-boilerplate backend.                               *)
(*                                                                         *)
(* Go strings are modelled as sequences of one-character strings, so the   *)
(* code's string operations (ToUpper, Split, ReplaceAll, HasSuffix, the    *)
(* title casing of humanizeText) are computed character by character.      *)
(***************************************************************************)
EXTENDS Integers, Sequences, FiniteSets, TLC

(***************************************************************************)
(* Bounds of the model.                                                    *)
(***************************************************************************)
\* number of requests served by the one registered route
NumRequests == 2
\* number of times the server hands one request's error to the error handler
MaxErrorHandlerCalls == 2
\* largest violation collection a payload's Validate() reports
MaxViolations == 2

\* the welcome-email tasks the job worker handles in one process
MaxTasks == 2

(***************************************************************************)
(* The strings package.                                                    *)
(***************************************************************************)
LowerLetters ==
    <<"a", "b", "c", "d", "e", "f", "g", "h", "i", "j", "k", "l", "m",
      "n", "o", "p", "q", "r", "s", "t", "u", "v", "w", "x", "y", "z">>

UpperLetters ==
    <<"A", "B", "C", "D", "E", "F", "G", "H", "I", "J", "K", "L", "M",
      "N", "O", "P", "Q", "R", "S", "T", "U", "V", "W", "X", "Y", "Z">>

LetterIndex(c, letters) ==
    IF \E i \in 1..Len(letters) : letters[i] = c
    THEN CHOOSE i \in 1..Len(letters) : letters[i] = c
    ELSE 0

ToUpperChar(c) ==
    LET i == LetterIndex(c, LowerLetters) IN IF i = 0 THEN c ELSE UpperLetters[i]

ToLowerChar(c) ==
    LET i == LetterIndex(c, UpperLetters) IN IF i = 0 THEN c ELSE LowerLetters[i]

\* strings.ToUpper
ToUpper(s) == [i \in 1..Len(s) |-> ToUpperChar(s[i])]

\* strings.ToLower
ToLower(s) == [i \in 1..Len(s) |-> ToLowerChar(s[i])]

\* strings.HasPrefix
HasPrefix(s, prefix) ==
    Len(s) >= Len(prefix) /\ SubSeq(s, 1, Len(prefix)) = prefix

\* strings.HasSuffix
HasSuffix(s, suffix) ==
    Len(s) >= Len(suffix) /\ SubSeq(s, Len(s) - Len(suffix) + 1, Len(s)) = suffix

\* strings.TrimSuffix
TrimSuffix(s, suffix) ==
    IF HasSuffix(s, suffix) THEN SubSeq(s, 1, Len(s) - Len(suffix)) ELSE s

\* strings.Index, counted from 1; 0 when substr does not occur in s
Index(s, substr) ==
    LET hits == {i \in 1..(Len(s) - Len(substr) + 1) :
                    SubSeq(s, i, i + Len(substr) - 1) = substr}
    IN  IF hits = {} THEN 0 ELSE CHOOSE i \in hits : \A j \in hits : i <= j

\* strings.Contains
Contains(s, substr) == Index(s, substr) # 0

\* strings.Split for a non-empty separator: the pieces of s around each
\* occurrence of sep, leftmost first
RECURSIVE Split(_, _)
Split(s, sep) ==
    LET i == Index(s, sep)
    IN  IF i = 0
        THEN <<s>>
        ELSE <<SubSeq(s, 1, i - 1)>> \o Split(SubSeq(s, i + Len(sep), Len(s)), sep)

\* strings.ReplaceAll for a non-empty old
RECURSIVE ReplaceAll(_, _, _)
ReplaceAll(s, old, new) ==
    LET i == Index(s, old)
    IN  IF i = 0
        THEN s
        ELSE SubSeq(s, 1, i - 1) \o new
                \o ReplaceAll(SubSeq(s, i + Len(old), Len(s)), old, new)

\* cases.Title(language.English).String: the first letter of every word in
\* upper case, every other letter in lower case
Title(s) ==
    [i \in 1..Len(s) |->
        IF i = 1 \/ s[i - 1] = " " THEN ToUpperChar(s[i]) ELSE ToLowerChar(s[i])]

(***************************************************************************)
(* String literals of the source, spelled as character sequences.          *)
(***************************************************************************)
S_underscore ==
    <<"_">>
S_space ==
    <<" ">>
S_comma ==
    <<",">>
S_colon ==
    <<":">>
S_id_suffix ==
    <<"_", "i", "d">>
S_RECORD ==
    <<"R", "E", "C", "O", "R", "D">>
S_S ==
    <<"S">>
S_s ==
    <<"s">>
S_ERROR ==
    <<"E", "R", "R", "O", "R">>
S_NOT_FOUND ==
    <<"N", "O", "T", "_", "F", "O", "U", "N", "D">>
S_ALREADY_EXISTS ==
    <<"A", "L", "R", "E", "A", "D", "Y", "_", "E", "X", "I", "S", "T", "S">>
S_REQUIRED ==
    <<"R", "E", "Q", "U", "I", "R", "E", "D">>
S_INVALID ==
    <<"I", "N", "V", "A", "L", "I", "D">>
S_record ==
    <<"r", "e", "c", "o", "r", "d">>
S_field ==
    <<"f", "i", "e", "l", "d">>
S_identifier ==
    <<"i", "d", "e", "n", "t", "i", "f", "i", "e", "r">>
S_unique_prefix ==
    <<"u", "n", "i", "q", "u", "e", "_">>
S_key_suffix ==
    <<"_", "k", "e", "y">>
S_ukey_suffix ==
    <<"_", "u", "k", "e", "y">>
S_table_prefix ==
    <<"t", "a", "b", "l", "e", ":">>
S_is_required ==
    <<"i", "s", " ", "r", "e", "q", "u", "i", "r", "e", "d">>
S_not_found_suffix ==
    <<" ", "n", "o", "t", " ", "f", "o", "u", "n", "d">>
S_Resource_not_found ==
    <<"R", "e", "s", "o", "u", "r", "c", "e", " ", "n", "o", "t", " ", "f", "o", "u", "n", "d">>
S_Route_not_found ==
    <<"R", "o", "u", "t", "e", " ", "n", "o", "t", " ", "f", "o", "u", "n", "d">>
S_Validation_failed ==
    <<"V", "a", "l", "i", "d", "a", "t", "i", "o", "n", " ", "f", "a", "i", "l", "e", "d">>
S_message_eq ==
    <<"m", "e", "s", "s", "a", "g", "e", "=">>
S_The_referenced ==
    <<"T", "h", "e", " ", "r", "e", "f", "e", "r", "e", "n", "c", "e", "d", " ">>
S_does_not_exist ==
    <<" ", "d", "o", "e", "s", " ", "n", "o", "t", " ", "e", "x", "i", "s", "t">>
S_A ==
    <<"A", " ">>
S_with_this_identifier ==
    <<" ", "w", "i", "t", "h", " ", "t", "h", "i", "s", " ", "i", "d", "e", "n", "t", "i", "f", "i", "e", "r", " ", "a", "l", "r", "e", "a", "d", "y", " ", "e", "x", "i", "s", "t", "s">>
S_The ==
    <<"T", "h", "e", " ">>
S_is_required_suffix ==
    <<" ", "i", "s", " ", "r", "e", "q", "u", "i", "r", "e", "d">>
S_value_does_not_meet ==
    <<" ", "v", "a", "l", "u", "e", " ", "d", "o", "e", "s", " ", "n", "o", "t", " ", "m", "e", "e", "t", " ", "r", "e", "q", "u", "i", "r", "e", "d", " ", "c", "o", "n", "d", "i", "t", "i", "o", "n", "s">>
S_One_or_more_values ==
    <<"O", "n", "e", " ", "o", "r", " ", "m", "o", "r", "e", " ", "v", "a", "l", "u", "e", "s", " ", "d", "o", " ", "n", "o", "t", " ", "m", "e", "e", "t", " ", "r", "e", "q", "u", "i", "r", "e", "d", " ", "c", "o", "n", "d", "i", "t", "i", "o", "n", "s">>
S_An_error_occurred ==
    <<"A", "n", " ", "e", "r", "r", "o", "r", " ", "o", "c", "c", "u", "r", "r", "e", "d", " ", "w", "h", "i", "l", "e", " ", "p", "r", "o", "c", "e", "s", "s", "i", "n", "g", " ", "y", "o", "u", "r", " ", "r", "e", "q", "u", "e", "s", "t">>
S_Bad_Request ==
    <<"B", "a", "d", " ", "R", "e", "q", "u", "e", "s", "t">>
S_Unauthorized ==
    <<"U", "n", "a", "u", "t", "h", "o", "r", "i", "z", "e", "d">>
S_Forbidden ==
    <<"F", "o", "r", "b", "i", "d", "d", "e", "n">>
S_Not_Found ==
    <<"N", "o", "t", " ", "F", "o", "u", "n", "d">>
S_Too_Many_Requests ==
    <<"T", "o", "o", " ", "M", "a", "n", "y", " ", "R", "e", "q", "u", "e", "s", "t", "s">>
S_Internal_Server_Error ==
    <<"I", "n", "t", "e", "r", "n", "a", "l", " ", "S", "e", "r", "v", "e", "r", " ", "E", "r", "r", "o", "r">>
S_Service_Unavailable ==
    <<"S", "e", "r", "v", "i", "c", "e", " ", "U", "n", "a", "v", "a", "i", "l", "a", "b", "l", "e">>
S_must_be_at_least ==
    <<"m", "u", "s", "t", " ", "b", "e", " ", "a", "t", " ", "l", "e", "a", "s", "t", " ">>
S_must_not_exceed ==
    <<"m", "u", "s", "t", " ", "n", "o", "t", " ", "e", "x", "c", "e", "e", "d", " ">>
S_characters ==
    <<" ", "c", "h", "a", "r", "a", "c", "t", "e", "r", "s">>
S_must_be_one_of ==
    <<"m", "u", "s", "t", " ", "b", "e", " ", "o", "n", "e", " ", "o", "f", ":", " ">>
S_valid_email ==
    <<"m", "u", "s", "t", " ", "b", "e", " ", "a", " ", "v", "a", "l", "i", "d", " ", "e", "m", "a", "i", "l", " ", "a", "d", "d", "r", "e", "s", "s">>
S_valid_phone ==
    <<"m", "u", "s", "t", " ", "b", "e", " ", "a", " ", "v", "a", "l", "i", "d", " ", "p", "h", "o", "n", "e", " ", "n", "u", "m", "b", "e", "r", " ", "w", "i", "t", "h", " ", "c", "o", "u", "n", "t", "r", "y", " ", "c", "o", "d", "e">>
S_valid_uuid ==
    <<"m", "u", "s", "t", " ", "b", "e", " ", "a", " ", "v", "a", "l", "i", "d", " ", "U", "U", "I", "D">>
S_valid_uuid_list ==
    <<"m", "u", "s", "t", " ", "b", "e", " ", "a", " ", "c", "o", "m", "m", "a", "-", "s", "e", "p", "a", "r", "a", "t", "e", "d", " ", "l", "i", "s", "t", " ", "o", "f", " ", "v", "a", "l", "i", "d", " ", "U", "U", "I", "D", "s">>
S_items_invalid ==
    <<"s", "o", "m", "e", " ", "i", "t", "e", "m", "s", " ", "a", "r", "e", " ", "i", "n", "v", "a", "l", "i", "d">>
S_colon_space ==
    <<":", " ">>
S_INTERNAL_SERVER_ERROR ==
    <<"I", "N", "T", "E", "R", "N", "A", "L", "_", "S", "E", "R", "V", "E", "R", "_", "E", "R", "R", "O", "R">>
S_tag_required ==
    <<"r", "e", "q", "u", "i", "r", "e", "d">>
S_tag_min ==
    <<"m", "i", "n">>
S_tag_max ==
    <<"m", "a", "x">>
S_tag_oneof ==
    <<"o", "n", "e", "o", "f">>
S_tag_email ==
    <<"e", "m", "a", "i", "l">>
S_tag_e164 ==
    <<"e", "1", "6", "4">>
S_tag_uuid ==
    <<"u", "u", "i", "d">>
S_tag_uuidList ==
    <<"u", "u", "i", "d", "L", "i", "s", "t">>
S_tag_dive ==
    <<"d", "i", "v", "e">>
T_users ==
    <<"u", "s", "e", "r", "s">>
T_posts ==
    <<"p", "o", "s", "t", "s">>
T_s ==
    <<"s">>
T_company ==
    <<"c", "o", "m", "p", "a", "n", "y">>
C_user_id ==
    <<"u", "s", "e", "r", "_", "i", "d">>
C_email ==
    <<"e", "m", "a", "i", "l">>
C_Created_At ==
    <<"C", "r", "e", "a", "t", "e", "d", "_", "A", "t">>
C_first_name ==
    <<"f", "i", "r", "s", "t", "_", "n", "a", "m", "e">>
K_unique_users_email ==
    <<"u", "n", "i", "q", "u", "e", "_", "u", "s", "e", "r", "s", "_", "e", "m", "a", "i", "l">>
K_unique_users_first_name ==
    <<"u", "n", "i", "q", "u", "e", "_", "u", "s", "e", "r", "s", "_", "f", "i", "r", "s", "t", "_", "n", "a", "m", "e">>
K_users_email_key ==
    <<"u", "s", "e", "r", "s", "_", "e", "m", "a", "i", "l", "_", "k", "e", "y">>
K_users_first_name_ukey ==
    <<"u", "s", "e", "r", "s", "_", "f", "i", "r", "s", "t", "_", "n", "a", "m", "e", "_", "u", "k", "e", "y">>
K_fk_posts_user ==
    <<"f", "k", "_", "p", "o", "s", "t", "s", "_", "u", "s", "e", "r">>
M_driver_text ==
    <<"r", "e", "l", "a", "t", "i", "o", "n", " ", "u", "s", "e", "r", "s", " ", "v", "i", "o", "l", "a", "t", "e", "s", " ", "u", "s", "e", "r", "s", "_", "e", "m", "a", "i", "l", "_", "k", "e", "y">>
M_connection_refused ==
    <<"d", "i", "a", "l", " ", "t", "c", "p", ":", " ", "c", "o", "n", "n", "e", "c", "t", "i", "o", "n", " ", "r", "e", "f", "u", "s", "e", "d">>
P_table_users ==
    <<"t", "a", "b", "l", "e", ":", "u", "s", "e", "r", "s", ":", " ">>
P_table_blank ==
    <<"t", "a", "b", "l", "e", ":", ":", " ">>
P_table_empty ==
    <<"t", "a", "b", "l", "e", ":">>
P_query_failed ==
    <<"q", "u", "e", "r", "y", " ", "f", "a", "i", "l", "e", "d", ":", " ">>
P_repository ==
    <<"r", "e", "p", "o", "s", "i", "t", "o", "r", "y", ":", " ">>
M_not_allowed ==
    <<"n", "o", "t", " ", "a", "l", "l", "o", "w", "e", "d">>
M_missing_session ==
    <<"m", "i", "s", "s", "i", "n", "g", " ", "s", "e", "s", "s", "i", "o", "n">>
M_login ==
    <<"l", "o", "g", "i", "n">>
B_syntax ==
    <<"c", "o", "d", "e", "=", "4", "0", "0", ",", " ", "m", "e", "s", "s", "a", "g", "e", "=", "S", "y", "n", "t", "a", "x", " ", "e", "r", "r", "o", "r", ":", " ", "o", "f", "f", "s", "e", "t", "=", "3">>
B_type ==
    <<"c", "o", "d", "e", "=", "4", "0", "0", ",", " ", "m", "e", "s", "s", "a", "g", "e", "=", "U", "n", "m", "a", "r", "s", "h", "a", "l", " ", "t", "y", "p", "e", " ", "e", "r", "r", "o", "r", ":", " ", "e", "x", "p", "e", "c", "t", "e", "d", "=", "i", "n", "t", ",", " ", "g", "o", "t", "=", "s", "t", "r", "i", "n", "g", ",", " ", "i", "n", "t", "e", "r", "n", "a", "l", "=", "j", "s", "o", "n">>
B_media ==
    <<"c", "o", "d", "e", "=", "4", "1", "5", ",", " ", "m", "e", "s", "s", "a", "g", "e", "=", "U", "n", "s", "u", "p", "p", "o", "r", "t", "e", "d", " ", "M", "e", "d", "i", "a", " ", "T", "y", "p", "e">>
B_eof ==
    <<"u", "n", "e", "x", "p", "e", "c", "t", "e", "d", " ", "E", "O", "F">>
B_no_message ==
    <<"i", "n", "v", "a", "l", "i", "d", " ", "b", "o", "d", "y", ",", " ", "o", "f", "f", "s", "e", "t", " ", "3">>
B_empty ==
    <<>>
F_Email ==
    <<"E", "m", "a", "i", "l">>
F_Name ==
    <<"N", "a", "m", "e">>
F_email ==
    <<"e", "m", "a", "i", "l">>
F_age ==
    <<"a", "g", "e">>
N_8 ==
    <<"8">>
N_admin_user ==
    <<"a", "d", "m", "i", "n", " ", "u", "s", "e", "r">>
S_tag_gte ==
    <<"g", "t", "e">>
M_must_match ==
    <<"m", "u", "s", "t", " ", "m", "a", "t", "c", "h", " ", "t", "h", "e", " ", "p", "a", "s", "s", "w", "o", "r", "d">>
M_panic_index ==
    <<"r", "u", "n", "t", "i", "m", "e", " ", "e", "r", "r", "o", "r", ":", " ", "i", "n", "d", "e", "x", " ", "o", "u", "t", " ", "o", "f", " ", "r", "a", "n", "g", "e", " ", "[", "1", "]", " ", "w", "i", "t", "h", " ", "l", "e", "n", "g", "t", "h", " ", "1">>
M_write_failed ==
    <<"w", "r", "i", "t", "e", " ", "t", "c", "p", ":", " ", "b", "r", "o", "k", "e", "n", " ", "p", "i", "p", "e">>
M_json_unsupported ==
    <<"j", "s", "o", "n", ":", " ", "u", "n", "s", "u", "p", "p", "o", "r", "t", "e", "d", " ", "t", "y", "p", "e", ":", " ", "c", "h", "a", "n", " ", "i", "n", "t">>

H_req_42 ==
    <<"r", "e", "q", "-", "4", "2">>
U_uuid_a ==
    <<"3", "f", "2", "b", "8", "c", "1", "e", "-", "9", "d", "4", "a", "-", "4", "c", "6", "b", "-", "8", "e", "1", "f", "-", "0", "a", "1", "b", "2", "c", "3", "d", "4", "e", "5", "f">>
U_uuid_b ==
    <<"7", "a", "9", "e", "1", "d", "2", "c", "-", "5", "b", "6", "f", "-", "4", "a", "3", "e", "-", "9", "c", "8", "d", "-", "1", "f", "2", "e", "3", "d", "4", "c", "5", "b", "6", "a">>
J_user_1 ==
    <<"u", "s", "e", "r", "_", "2", "a", "b", "c">>
J_user_2 ==
    <<"u", "s", "e", "r", "_", "9", "x", "y", "z">>
J_org_admin ==
    <<"o", "r", "g", ":", "a", "d", "m", "i", "n">>
J_org_member ==
    <<"o", "r", "g", ":", "m", "e", "m", "b", "e", "r">>
J_perm_read ==
    <<"o", "r", "g", ":", "p", "o", "s", "t", "s", ":", "r", "e", "a", "d">>
J_perm_manage ==
    <<"o", "r", "g", ":", "p", "o", "s", "t", "s", ":", "m", "a", "n", "a", "g", "e">>

S_healthy ==
    <<"h", "e", "a", "l", "t", "h", "y">>
S_unhealthy ==
    <<"u", "n", "h", "e", "a", "l", "t", "h", "y">>

P_failed_to_write ==
    <<"f", "a", "i", "l", "e", "d", " ", "t", "o", " ", "w", "r", "i", "t", "e", " ", "J", "S", "O", "N", " ", "r", "e", "s", "p", "o", "n", "s", "e", ":", " ">>

S_Rate_limit_exceeded ==
    <<"R", "a", "t", "e", " ", "l", "i", "m", "i", "t", " ", "e", "x", "c", "e", "e", "d", "e", "d">>

P_failed_to_initialize_database ==
    <<"f", "a", "i", "l", "e", "d", " ", "t", "o", " ", "i", "n", "i", "t", "i", "a", "l", "i", "z", "e", " ", "d", "a", "t", "a", "b", "a", "s", "e", ":", " ">>
P_failed_to_ping_database ==
    <<"f", "a", "i", "l", "e", "d", " ", "t", "o", " ", "p", "i", "n", "g", " ", "d", "a", "t", "a", "b", "a", "s", "e", ":", " ">>
P_failed_to_create_pgx_pool ==
    <<"f", "a", "i", "l", "e", "d", " ", "t", "o", " ", "c", "r", "e", "a", "t", "e", " ", "p", "g", "x", " ", "p", "o", "o", "l", ":", " ">>
P_failed_to_shutdown_HTTP_server ==
    <<"f", "a", "i", "l", "e", "d", " ", "t", "o", " ", "s", "h", "u", "t", "d", "o", "w", "n", " ", "H", "T", "T", "P", " ", "s", "e", "r", "v", "e", "r", ":", " ">>
P_failed_to_close_database ==
    <<"f", "a", "i", "l", "e", "d", " ", "t", "o", " ", "c", "l", "o", "s", "e", " ", "d", "a", "t", "a", "b", "a", "s", "e", " ", "c", "o", "n", "n", "e", "c", "t", "i", "o", "n", ":", " ">>
M_context_deadline ==
    <<"c", "o", "n", "t", "e", "x", "t", " ", "d", "e", "a", "d", "l", "i", "n", "e", " ", "e", "x", "c", "e", "e", "d", "e", "d">>

(***************************************************************************)
(* Error values.  A Go error is a record tagged with its dynamic type; a   *)
(* wrapping error (fmt.Errorf with %w) carries the error it wraps.         *)
(***************************************************************************)
\* the nil error
NilError == [type |-> "nil"]

\* a nil *string, *Action or []FieldError argument
NilCode == <<"nil">>
NilAction == [type |-> "nil"]
NilFieldErrors == <<>>

\* errors.New(text)
ErrorString(text) == [type |-> "errorString", text |-> text]

\* fmt.Errorf(prefix + "%w", inner)
Wrapped(prefix, inner) == [type |-> "wrapError", text |-> prefix, inner |-> inner]

\* pgx.ErrNoRows and sql.ErrNoRows, two distinct sentinel values
S_pgx_no_rows ==
    <<"n", "o", " ", "r", "o", "w", "s", " ", "i", "n", " ", "r", "e", "s", "u", "l", "t", " ", "s", "e", "t">>

S_sql_no_rows ==
    <<"s", "q", "l", ":", " ", "n", "o", " ", "r", "o", "w", "s", " ", "i", "n", " ", "r", "e", "s", "u", "l", "t", " ", "s", "e", "t">>

PgxErrNoRows == [type |-> "sentinel", pkg |-> "pgx", text |-> S_pgx_no_rows]

SqlErrNoRows == [type |-> "sentinel", pkg |-> "sql", text |-> S_sql_no_rows]

\* *pgconn.PgError: the SQLSTATE, the driver's message and the names the
\* server reports
PgError(sqlstate, message, table, column, constraint) ==
    [type |-> "PgError", Code |-> sqlstate, Message |-> message,
     TableName |-> table, ColumnName |-> column, ConstraintName |-> constraint]

\* *echo.HTTPError: Message is an interface{}; isString tells whether its
\* dynamic type is string
EchoHTTPError(code, isString, message) ==
    [type |-> "echo.HTTPError", Code |-> code, isString |-> isString,
     Message |-> message]

\* the Error() method of an error value
RECURSIVE ErrorText(_)
ErrorText(err) ==
    CASE err.type = "wrapError"  -> err.text \o ErrorText(err.inner)
      [] err.type = "HTTPError"  -> err.Message
      [] err.type = "PgError"    -> err.Message
      [] err.type = "echo.HTTPError" -> err.Message
      [] OTHER                   -> err.text

\* errors.As(err, &target) for a target of dynamic type t: the first error
\* of that type in err's chain, NilError when there is none
RECURSIVE ErrorsAs(_, _)
ErrorsAs(err, t) ==
    IF err.type = t THEN err
    ELSE IF err.type = "wrapError" THEN ErrorsAs(err.inner, t)
    ELSE NilError

\* errors.Is(err, target) for a sentinel target
RECURSIVE ErrorsIs(_, _)
ErrorsIs(err, target) ==
    IF err = target THEN TRUE
    ELSE IF err.type = "wrapError" THEN ErrorsIs(err.inner, target)
    ELSE FALSE

(***************************************************************************)
(* net/http status codes and texts used by the code.                       *)
(***************************************************************************)
StatusOK == 200
StatusCreated == 201
StatusNoContent == 204
StatusBadRequest == 400
StatusUnauthorized == 401
StatusForbidden == 403
StatusNotFound == 404
StatusTooManyRequests == 429
StatusInternalServerError == 500
StatusServiceUnavailable == 503

\* http.StatusText
StatusText(status) ==
    CASE status = StatusBadRequest           -> S_Bad_Request
      [] status = StatusUnauthorized         -> S_Unauthorized
      [] status = StatusForbidden            -> S_Forbidden
      [] status = StatusNotFound             -> S_Not_Found
      [] status = StatusTooManyRequests      -> S_Too_Many_Requests
      [] status = StatusInternalServerError  -> S_Internal_Server_Error
      [] status = StatusServiceUnavailable   -> S_Service_Unavailable
      [] OTHER                               -> <<>>

(***************************************************************************)
(* Package errs.                                                           *)
(***************************************************************************)
FieldError(field, error) == [Field |-> field, Error |-> error]

HTTPError(code, message, status, override, errors, action) ==
    [type |-> "HTTPError", Code |-> code, Message |-> message, Status |-> status,
     Override |-> override, Errors |-> errors, Action |-> action]

\* MakeUpperCaseWithUnderscores with the spaces left as they are
MakeUpperCaseKeepingSpaces(str) == ToUpper(str)

MakeUpperCaseWithUnderscores(str) ==
    ToUpper(ReplaceAll(str, S_space, S_underscore))

NewUnauthorizedError(message, override) ==
    HTTPError(MakeUpperCaseWithUnderscores(StatusText(StatusUnauthorized)),
              message, StatusUnauthorized, override, NilFieldErrors, NilAction)

NewForbiddenError(message, override) ==
    HTTPError(MakeUpperCaseWithUnderscores(StatusText(StatusForbidden)),
              message, StatusForbidden, override, NilFieldErrors, NilAction)

NewBadRequestError(message, override, code, errors, action) ==
    LET formattedCode ==
            IF code # NilCode
            THEN code
            ELSE MakeUpperCaseWithUnderscores(StatusText(StatusBadRequest))
    IN  HTTPError(formattedCode, message, StatusBadRequest, override, errors, action)

NewNotFoundError(message, override, code) ==
    LET formattedCode ==
            IF code # NilCode
            THEN code
            ELSE MakeUpperCaseWithUnderscores(StatusText(StatusNotFound))
    IN  HTTPError(formattedCode, message, StatusNotFound, override,
                  NilFieldErrors, NilAction)

NewInternalServerError ==
    HTTPError(MakeUpperCaseWithUnderscores(StatusText(StatusInternalServerError)),
              StatusText(StatusInternalServerError), StatusInternalServerError,
              FALSE, NilFieldErrors, NilAction)

(***************************************************************************)
(* Package sqlerr.                                                         *)
(***************************************************************************)
\* the violation kinds (sqlerr.Code)
ForeignKeyViolation == "ForeignKeyViolation"
UniqueViolation == "UniqueViolation"
NotNullViolation == "NotNullViolation"
CheckViolation == "CheckViolation"
Other == "Other"

\* MapCode: the SQLSTATE of the database's standard error-code taxonomy to
\* a violation kind
MapCode(sqlstate) ==
    CASE sqlstate = "23503" -> ForeignKeyViolation
      [] sqlstate = "23505" -> UniqueViolation
      [] sqlstate = "23502" -> NotNullViolation
      [] sqlstate = "23514" -> CheckViolation
      [] OTHER              -> Other

\* ConvertPgError, with the fields HandleError reads
ConvertPgError(src) ==
    [Code |-> MapCode(src.Code), DatabaseCode |-> src.Code, Message |-> src.Message,
     TableName |-> src.TableName, ColumnName |-> src.ColumnName,
     ConstraintName |-> src.ConstraintName]

\* generateErrorCode without the removal of the trailing "S"
generateErrorCodeKeepingPlural(tableName, errType) ==
    LET table == IF tableName = <<>> THEN S_RECORD ELSE tableName
        domain == ToUpper(table)
        action == CASE errType = ForeignKeyViolation -> S_NOT_FOUND
                    [] errType = UniqueViolation     -> S_ALREADY_EXISTS
                    [] errType = NotNullViolation    -> S_REQUIRED
                    [] errType = CheckViolation      -> S_INVALID
                    [] OTHER                         -> S_ERROR
    IN  domain \o S_underscore \o action

generateErrorCode(tableName, errType) ==
    LET table == IF tableName = <<>> THEN S_RECORD ELSE tableName
        upper == ToUpper(table)
        domain == IF HasSuffix(upper, S_S) /\ Len(upper) > 1
                  THEN SubSeq(upper, 1, Len(upper) - 1)
                  ELSE upper
        action == CASE errType = ForeignKeyViolation -> S_NOT_FOUND
                    [] errType = UniqueViolation     -> S_ALREADY_EXISTS
                    [] errType = NotNullViolation    -> S_REQUIRED
                    [] errType = CheckViolation      -> S_INVALID
                    [] OTHER                         -> S_ERROR
    IN  domain \o S_underscore \o action

humanizeText(text) ==
    IF text = <<>> THEN <<>> ELSE Title(ReplaceAll(text, S_underscore, S_space))

getEntityName(tableName, columnName) ==
    IF columnName # <<>> /\ HasSuffix(ToLower(columnName), S_id_suffix)
    THEN humanizeText(TrimSuffix(ToLower(columnName), S_id_suffix))
    ELSE IF tableName # <<>>
    THEN humanizeText(IF HasSuffix(tableName, S_s) /\ Len(tableName) > 1
                      THEN SubSeq(tableName, 1, Len(tableName) - 1)
                      ELSE tableName)
    ELSE S_record

formatUserFriendlyMessage(sqlErr) ==
    LET entityName == getEntityName(sqlErr.TableName, sqlErr.ColumnName)
        fieldName == humanizeText(sqlErr.ColumnName)
    IN  CASE sqlErr.Code = ForeignKeyViolation ->
                S_The_referenced \o entityName \o S_does_not_exist
          [] sqlErr.Code = UniqueViolation ->
                S_A \o entityName \o S_with_this_identifier
          [] sqlErr.Code = NotNullViolation ->
                S_The \o (IF fieldName = <<>> THEN S_field ELSE fieldName)
                      \o S_is_required_suffix
          [] sqlErr.Code = CheckViolation ->
                IF fieldName # <<>>
                THEN S_The \o fieldName \o S_value_does_not_meet
                ELSE S_One_or_more_values
          [] OTHER -> S_An_error_occurred

\* the submatch of the regular expression _([^_]+)_(?:key|ukey)$ in name,
\* <<>> when it does not match
KeyConventionColumn(name) ==
    LET rest == IF HasSuffix(name, S_key_suffix) THEN TrimSuffix(name, S_key_suffix)
                ELSE IF HasSuffix(name, S_ukey_suffix) THEN TrimSuffix(name, S_ukey_suffix)
                ELSE <<>>
        parts == Split(rest, S_underscore)
    IN  IF Len(parts) >= 2 THEN parts[Len(parts)] ELSE <<>>

extractColumnForUniqueViolation(constraintName) ==
    IF constraintName = <<>> THEN <<>>
    ELSE LET parts == Split(constraintName, S_underscore)
         IN  IF HasPrefix(constraintName, S_unique_prefix) /\ Len(parts) >= 3
             THEN parts[Len(parts)]
             ELSE KeyConventionColumn(constraintName)

\* the table token of a no-rows error text: the text between the first
\* "table:" and the next ":"
NoRowsTable(errMsg) == Split(Split(errMsg, S_table_prefix)[2], S_colon)[1]

\* the switch of HandleError over the violation kind, with a default branch
\* that builds its answer from the driver error like the other branches do
HandlePgErrorDescribingOther(sqlErr) ==
    LET errorCode == generateErrorCode(sqlErr.TableName, sqlErr.Code)
        userMessage == formatUserFriendlyMessage(sqlErr)
        columnName == extractColumnForUniqueViolation(sqlErr.ConstraintName)
    IN  CASE sqlErr.Code = ForeignKeyViolation ->
                NewBadRequestError(userMessage, FALSE, errorCode, NilFieldErrors, NilAction)
          [] sqlErr.Code = UniqueViolation ->
                NewBadRequestError(
                    IF columnName # <<>>
                    THEN ReplaceAll(userMessage, S_identifier, humanizeText(columnName))
                    ELSE userMessage,
                    TRUE, errorCode, NilFieldErrors, NilAction)
          [] sqlErr.Code = NotNullViolation ->
                NewBadRequestError(userMessage, TRUE, errorCode,
                    <<FieldError(ToLower(sqlErr.ColumnName), S_is_required)>>, NilAction)
          [] sqlErr.Code = CheckViolation ->
                NewBadRequestError(userMessage, TRUE, errorCode, NilFieldErrors, NilAction)
          [] OTHER ->
                HTTPError(errorCode, userMessage, StatusInternalServerError, FALSE,
                          NilFieldErrors, NilAction)

\* the switch of HandleError over the violation kind, with a foreign-key
\* violation answered as the not-found error its code names
HandlePgErrorForeignKeyNotFound(sqlErr) ==
    LET errorCode == generateErrorCode(sqlErr.TableName, sqlErr.Code)
        userMessage == formatUserFriendlyMessage(sqlErr)
        columnName == extractColumnForUniqueViolation(sqlErr.ConstraintName)
    IN  CASE sqlErr.Code = ForeignKeyViolation ->
                NewNotFoundError(userMessage, FALSE, errorCode)
          [] sqlErr.Code = UniqueViolation ->
                NewBadRequestError(
                    IF columnName # <<>>
                    THEN ReplaceAll(userMessage, S_identifier, humanizeText(columnName))
                    ELSE userMessage,
                    TRUE, errorCode, NilFieldErrors, NilAction)
          [] sqlErr.Code = NotNullViolation ->
                NewBadRequestError(userMessage, TRUE, errorCode,
                    <<FieldError(ToLower(sqlErr.ColumnName), S_is_required)>>, NilAction)
          [] sqlErr.Code = CheckViolation ->
                NewBadRequestError(userMessage, TRUE, errorCode, NilFieldErrors, NilAction)
          [] OTHER -> NewInternalServerError

\* the switch of HandleError over the violation kind, with the field of a
\* not-null violation left in the case the driver reports
HandlePgErrorKeepingCase(sqlErr) ==
    LET errorCode == generateErrorCode(sqlErr.TableName, sqlErr.Code)
        userMessage == formatUserFriendlyMessage(sqlErr)
        columnName == extractColumnForUniqueViolation(sqlErr.ConstraintName)
    IN  CASE sqlErr.Code = ForeignKeyViolation ->
                NewBadRequestError(userMessage, FALSE, errorCode, NilFieldErrors, NilAction)
          [] sqlErr.Code = UniqueViolation ->
                NewBadRequestError(
                    IF columnName # <<>>
                    THEN ReplaceAll(userMessage, S_identifier, humanizeText(columnName))
                    ELSE userMessage,
                    TRUE, errorCode, NilFieldErrors, NilAction)
          [] sqlErr.Code = NotNullViolation ->
                NewBadRequestError(userMessage, TRUE, errorCode,
                    <<FieldError(sqlErr.ColumnName, S_is_required)>>, NilAction)
          [] sqlErr.Code = CheckViolation ->
                NewBadRequestError(userMessage, TRUE, errorCode, NilFieldErrors, NilAction)
          [] OTHER -> NewInternalServerError

\* the switch of HandleError over the violation kind of a driver error
HandlePgError(sqlErr) ==
    LET errorCode == generateErrorCode(sqlErr.TableName, sqlErr.Code)
        userMessage == formatUserFriendlyMessage(sqlErr)
        columnName == extractColumnForUniqueViolation(sqlErr.ConstraintName)
    IN  CASE sqlErr.Code = ForeignKeyViolation ->
                NewBadRequestError(userMessage, FALSE, errorCode, NilFieldErrors, NilAction)
          [] sqlErr.Code = UniqueViolation ->
                NewBadRequestError(
                    IF columnName # <<>>
                    THEN ReplaceAll(userMessage, S_identifier, humanizeText(columnName))
                    ELSE userMessage,
                    TRUE, errorCode, NilFieldErrors, NilAction)
          [] sqlErr.Code = NotNullViolation ->
                NewBadRequestError(userMessage, TRUE, errorCode,
                    <<FieldError(ToLower(sqlErr.ColumnName), S_is_required)>>, NilAction)
          [] sqlErr.Code = CheckViolation ->
                NewBadRequestError(userMessage, TRUE, errorCode, NilFieldErrors, NilAction)
          [] OTHER -> NewInternalServerError

\* HandleError past its first test: the classification of an error that is
\* not an Application Error
ClassifyError(err) ==
    IF ErrorsAs(err, "PgError") # NilError
    THEN HandlePgError(ConvertPgError(ErrorsAs(err, "PgError")))
    ELSE IF ErrorsIs(err, PgxErrNoRows) \/ ErrorsIs(err, SqlErrNoRows)
    THEN IF Contains(ErrorText(err), S_table_prefix)
         THEN NewNotFoundError(
                  getEntityName(NoRowsTable(ErrorText(err)), <<>>) \o S_not_found_suffix,
                  TRUE, NilCode)
         ELSE NewNotFoundError(S_Resource_not_found, FALSE, NilCode)
    ELSE NewInternalServerError

\* HandleError without its first test, so that an Application Error is
\* classified like any other error
HandleErrorWithoutGuard(err) == ClassifyError(err)

HandleError(err) ==
    IF ErrorsAs(err, "HTTPError") # NilError THEN err ELSE ClassifyError(err)

(***************************************************************************)
(* Package validation.                                                     *)
(*                                                                         *)
(* A call that can panic yields a record with kind "panic"; one that       *)
(* returns yields kind "return".                                           *)
(***************************************************************************)
\* validator.FieldError: the struct field, the failed tag, the tag's
\* parameter and the kind of the field's type
TagViolation(field, tag, param, kind) ==
    [Field |-> field, Tag |-> tag, Param |-> param, Kind |-> kind]

\* validator.ValidationErrors
ValidationErrors(violations) == [type |-> "ValidationErrors", errs |-> violations]

\* CustomValidationError
CustomValidationError(field, message) == [Field |-> field, Message |-> message]

\* CustomValidationErrors; its Error() is "Validation failed"
CustomValidationErrors(violations) ==
    [type |-> "CustomValidationErrors", errs |-> violations, text |-> S_Validation_failed]

\* the message of one tag violation: the switch over err.Tag()
TagMessage(v) ==
    LET field == ToLower(v.Field)
    IN  CASE v.Tag = S_tag_required -> S_is_required
          [] v.Tag = S_tag_min ->
                IF v.Kind = "string"
                THEN S_must_be_at_least \o v.Param \o S_characters
                ELSE S_must_be_at_least \o v.Param
          [] v.Tag = S_tag_max ->
                IF v.Kind = "string"
                THEN S_must_not_exceed \o v.Param \o S_characters
                ELSE S_must_not_exceed \o v.Param
          [] v.Tag = S_tag_oneof -> S_must_be_one_of \o v.Param
          [] v.Tag = S_tag_email -> S_valid_email
          [] v.Tag = S_tag_e164 -> S_valid_phone
          [] v.Tag = S_tag_uuid -> S_valid_uuid
          [] v.Tag = S_tag_uuidList -> S_valid_uuid_list
          [] v.Tag = S_tag_dive -> S_items_invalid
          [] OTHER ->
                IF v.Param # <<>>
                THEN field \o S_colon_space \o v.Tag \o S_colon \o v.Param
                ELSE field \o S_colon_space \o v.Tag

\* extractValidationError with the field names left in the case of the
\* struct fields
extractValidationErrorKeepingCase(err) ==
    CASE err.type = "ValidationErrors" ->
            [kind |-> "return", msg |-> S_Validation_failed,
             fieldErrors |-> [i \in 1..Len(err.errs) |->
                 FieldError(err.errs[i].Field, TagMessage(err.errs[i]))]]
      [] err.type = "CustomValidationErrors" ->
            [kind |-> "return", msg |-> S_Validation_failed,
             fieldErrors |-> [i \in 1..Len(err.errs) |->
                 FieldError(err.errs[i].Field, err.errs[i].Message)]]
      [] OTHER ->
            [kind |-> "panic", msg |-> <<>>, fieldErrors |-> NilFieldErrors]

\* extractValidationError: the type assertion to CustomValidationErrors
\* panics on an error of any third type
extractValidationError(err) ==
    CASE err.type = "ValidationErrors" ->
            [kind |-> "return", msg |-> S_Validation_failed,
             fieldErrors |-> [i \in 1..Len(err.errs) |->
                 FieldError(ToLower(err.errs[i].Field), TagMessage(err.errs[i]))]]
      [] err.type = "CustomValidationErrors" ->
            [kind |-> "return", msg |-> S_Validation_failed,
             fieldErrors |-> [i \in 1..Len(err.errs) |->
                 FieldError(err.errs[i].Field, err.errs[i].Message)]]
      [] OTHER ->
            [kind |-> "panic", msg |-> <<>>, fieldErrors |-> NilFieldErrors]

\* validateStruct, given what v.Validate() returned
validateStruct(validateErr) ==
    IF validateErr # NilError
    THEN extractValidationError(validateErr)
    ELSE [kind |-> "return", msg |-> <<>>, fieldErrors |-> NilFieldErrors]

\* what a call of BindAndValidate or handleRequest did: returned err, or
\* panicked; validated tells whether payload.Validate() was invoked
Returned(err, validated) == [kind |-> "return", err |-> err, validated |-> validated]
Panicked(validated) == [kind |-> "panic", err |-> NilError, validated |-> validated]
NotCalled == [kind |-> "none", err |-> NilError, validated |-> FALSE]

\* BindAndValidate, first branch: c.Bind returned bindErr.  Indexing the
\* pieces of the error text panics when a piece is missing
BindFailed(bindErr) ==
    LET parts == Split(ErrorText(bindErr), S_comma)
        inner == Split(parts[2], S_message_eq)
    IN  IF Len(parts) < 2 THEN Panicked(FALSE)
        ELSE IF Len(inner) < 2 THEN Panicked(FALSE)
        ELSE Returned(NewBadRequestError(inner[2], FALSE, NilCode, NilFieldErrors,
                                         NilAction), FALSE)

\* BindAndValidate, after c.Bind returned nil: validateErr is what
\* payload.Validate() returns
BindSucceeded(validateErr) ==
    LET r == validateStruct(validateErr)
    IN  IF r.kind = "panic" THEN Panicked(TRUE)
        ELSE IF r.fieldErrors # NilFieldErrors
        THEN Returned(NewBadRequestError(r.msg, TRUE, NilCode, r.fieldErrors, NilAction),
                      TRUE)
        ELSE Returned(NilError, TRUE)

BindAndValidate(bindErr, validateErr) ==
    IF bindErr # NilError THEN BindFailed(bindErr) ELSE BindSucceeded(validateErr)

(***************************************************************************)
(* Package handler: the response writer strategies and handleRequest.      *)
(***************************************************************************)
\* the requests served by the one route of the model
Requests == 1..NumRequests

\* the fields of the route's request payload, in the order c.Bind fills
\* them; Email carries validate:"required"
FieldOrder == <<"Email", "Name">>
Fields == {FieldOrder[i] : i \in 1..Len(FieldOrder)}
RequiredFields == {"Email"}

\* the zero value of a payload field, and the zero payload
Zero == 0
ZeroPayload == [f \in Fields |-> Zero]

\* payload.Validate() of a payload with validator tags: one "required"
\* violation for each required field that holds its zero value
RECURSIVE RequiredViolations(_, _)
RequiredViolations(p, i) ==
    IF i > Len(FieldOrder) THEN <<>>
    ELSE (IF FieldOrder[i] \in RequiredFields /\ p[FieldOrder[i]] = Zero
          THEN <<TagViolation(IF FieldOrder[i] = "Email" THEN F_Email ELSE F_Name,
                              S_tag_required, <<>>, "string")>>
          ELSE <<>>) \o RequiredViolations(p, i + 1)

Validate(p) ==
    IF RequiredViolations(p, 1) = <<>> THEN NilError
    ELSE ValidationErrors(RequiredViolations(p, 1))

\* the ResponseHandler a registration builds
JSONResponseHandler(status) == [kind |-> "json", status |-> status]
NoContentResponseHandler(status) == [kind |-> "no_content", status |-> status]
FileResponseHandler(status) == [kind |-> "file", status |-> status]

\* Handle, HandleFile and HandleNoContent: the strategy each one hands to
\* handleRequest
Handle(status) == JSONResponseHandler(status)
HandleFile(status) == FileResponseHandler(status)
HandleNoContent(status) == NoContentResponseHandler(status)

Routes == {Handle(StatusCreated), HandleFile(StatusOK), HandleNoContent(StatusNoContent)}


\* what a call did: it returned err, or it panicked
Return(err) == [kind |-> "return", err |-> err]
Panic == [kind |-> "panic", err |-> NilError]
NoCall == [kind |-> "none", err |-> NilError]

\* the result and error of the business handler, as the closures of Handle,
\* HandleFile and HandleNoContent adapt them: the dynamic type of result is
\* Res, []byte, or nil
ResultType(responseHandler) ==
    CASE responseHandler.kind = "json" -> "Res"
      [] responseHandler.kind = "file" -> "[]byte"
      [] responseHandler.kind = "no_content" -> "nil"

\* the errors a business handler returns
HandlerErrors ==
    {NewNotFoundError(S_Resource_not_found, FALSE, NilCode),
     PgError("23505", M_driver_text, T_users, <<>>, K_unique_users_email),
     ErrorString(M_connection_refused)}

HandlerOutcomes == {Return(NilError), Panic} \cup {Return(e) : e \in HandlerErrors}

\* the Handle method of a strategy, given how the framework's write went:
\* "ok", "fail_committed" (the write failed after the header was sent) or
\* "fail_uncommitted" (serialization failed before anything was sent).
\* The file strategy asserts that result is a []byte and panics otherwise.
WriteOutcomes(responseHandler) ==
    CASE responseHandler.kind = "json" -> {"ok", "fail_committed", "fail_uncommitted"}
      [] responseHandler.kind = "no_content" -> {"ok"}
      [] responseHandler.kind = "file" -> {"ok", "fail_committed"}

ResponseHandle(responseHandler, resultType, how) ==
    IF responseHandler.kind = "file" /\ resultType # "[]byte" THEN Panic
    ELSE CASE how = "ok" -> Return(NilError)
           [] how = "fail_committed" -> Return(ErrorString(M_write_failed))
           [] how = "fail_uncommitted" -> Return(ErrorString(M_json_unsupported))

\* handleRequest after BindAndValidate: where it goes next and what it
\* returns when it ends there
AfterValidationFallingThrough(out) ==
    IF out.kind = "panic" THEN [next |-> "error", ret |-> Panic]
    ELSE [next |-> "handler", ret |-> NoCall]

AfterValidation(out) ==
    IF out.kind = "panic" THEN [next |-> "error", ret |-> Panic]
    ELSE IF out.err # NilError THEN [next |-> "error", ret |-> Return(out.err)]
    ELSE [next |-> "handler", ret |-> NoCall]

\* handleRequest after the business handler
AfterHandlerAlwaysWriting(out) ==
    IF out.kind = "panic" THEN [next |-> "error", ret |-> Panic]
    ELSE [next |-> "write", ret |-> NoCall]

AfterHandlerClassifying(out) ==
    IF out.kind = "panic" THEN [next |-> "error", ret |-> Panic]
    ELSE IF out.err # NilError
    THEN [next |-> "error", ret |-> Return(HandleError(out.err))]
    ELSE [next |-> "write", ret |-> NoCall]

AfterHandler(out) ==
    IF out.kind = "panic" THEN [next |-> "error", ret |-> Panic]
    ELSE IF out.err # NilError THEN [next |-> "error", ret |-> Return(out.err)]
    ELSE [next |-> "write", ret |-> NoCall]

\* handleRequest after responseHandler.Handle: it returns what Handle
\* returned
AfterWrite(out) ==
    IF out.kind = "panic" THEN [next |-> "error", ret |-> Panic]
    ELSE IF out.err # NilError THEN [next |-> "error", ret |-> Return(out.err)]
    ELSE [next |-> "done", ret |-> Return(NilError)]

\* the value a closure of Handle, HandleFile or HandleNoContent returns as
\* interface{}, with a nil value of the handler turned into the nil
\* interface
ClosureResultLosingType(responseHandler, value) ==
    IF responseHandler.kind = "no_content" \/ value = "nil"
    THEN [dynType |-> "nil", value |-> "nil"]
    ELSE [dynType |-> ResultType(responseHandler), value |-> value]

\* the value a closure of Handle, HandleFile or HandleNoContent returns as
\* interface{}: the closures of Handle and HandleFile convert the typed
\* result of the handler, which keeps its type when its value is nil; the
\* closure of HandleNoContent returns the nil interface
ClosureResult(responseHandler, value) ==
    IF responseHandler.kind = "no_content"
    THEN [dynType |-> "nil", value |-> "nil"]
    ELSE [dynType |-> ResultType(responseHandler), value |-> value]

\* a call on the trace transaction; neither method returns a value
AddAttribute(key) == [method |-> "AddAttribute", key |-> key]
NoticeError(err) == [method |-> "NoticeError", err |-> err]

\* the calls of a block guarded by txn != nil, with the guard left out
TxnCallsUnguarded(txn, calls) == calls

\* the calls of a block guarded by txn != nil
TxnCalls(txn, calls) == IF txn THEN calls ELSE <<>>

\* the AddAttributes method of a strategy
AddAttributes(txn, responseHandler, result) ==
    IF responseHandler.kind = "file"
    THEN TxnCalls(txn,
            <<AddAttribute("file.name"), AddAttribute("file.content_type")>>
            \o (IF result.dynType = "[]byte"
                THEN <<AddAttribute("file.size_bytes")>> ELSE <<>>))
    ELSE <<>>

\* the calls handleRequest makes on the transaction when it starts
TraceAtEntry(txn, responseHandler) ==
    TxnCalls(txn, <<AddAttribute("handler.name")>>
                  \o AddAttributes(txn, responseHandler,
                                   [dynType |-> "nil", value |-> "nil"]))

\* the calls it makes after BindAndValidate did out
TraceAfterValidation(txn, out) ==
    IF out.kind = "panic" THEN <<>>
    ELSE IF out.err # NilError
    THEN TxnCalls(txn, <<NoticeError(out.err), AddAttribute("validation.status"),
                         AddAttribute("validation.duration_ms")>>)
    ELSE TxnCalls(txn, <<AddAttribute("validation.status"),
                         AddAttribute("validation.duration_ms")>>)

\* the calls it makes after the business handler did out and returned result
TraceAfterHandler(txn, responseHandler, out, result) ==
    IF out.kind = "panic" THEN <<>>
    ELSE IF out.err # NilError
    THEN TxnCalls(txn, <<NoticeError(out.err), AddAttribute("handler.status"),
                         AddAttribute("handler.duration_ms"),
                         AddAttribute("total.duration_ms")>>)
    ELSE TxnCalls(txn, <<AddAttribute("handler.status"),
                         AddAttribute("handler.duration_ms"),
                         AddAttribute("total.duration_ms")>>
                       \o AddAttributes(txn, responseHandler, result))

(***************************************************************************)
(* Package handler: HealthHandler.CheckHealth.                             *)
(***************************************************************************)
\* the entry of the checks map for a dependency whose ping returned err
CheckEntry(err) ==
    IF err # NilError
    THEN [status |-> S_unhealthy, error |-> ErrorText(err)]
    ELSE [status |-> S_healthy, error |-> <<>>]

\* the entry of a dependency that was not checked
NoCheck == [status |-> <<>>, error |-> <<>>]

\* isHealthy after the database check
HealthyAfterDatabase(isHealthy, err) == IF err # NilError THEN FALSE ELSE isHealthy

\* isHealthy after the Redis check: the check leaves it as it is
HealthyAfterRedis(isHealthy, err) == isHealthy

\* the status and the body CheckHealth hands to c.JSON
HealthResponse(isHealthy, checks) ==
    IF ~isHealthy
    THEN [Status |-> StatusServiceUnavailable, status |-> S_unhealthy, checks |-> checks]
    ELSE [Status |-> StatusOK, status |-> S_healthy, checks |-> checks]

\* the custom events of a failed step, recorded when New Relic is enabled
HealthEvents(application, events) == IF application THEN events ELSE <<>>

(***************************************************************************)
(* Packages server, database and job: New, Shutdown and the job worker.    *)
(* The steps of New are "database", "redis", "NewJobService",              *)
(* "InitHandlers" and "Start"; those of Shutdown are "httpServer",         *)
(* "DB" and "Job".                                                         *)
(***************************************************************************)
\* where a function goes after a step: to the step next, or to its end
\* with the error ret
GoOn(next) == [next |-> next, ret |-> NilError]
GiveUp(ret) == [next |-> "failed", ret |-> ret]

\* New with a failed Redis ping ending the startup
NewAfterRedisRequired(step, err) ==
    CASE step = "database" ->
            IF err # NilError
            THEN GiveUp(Wrapped(P_failed_to_initialize_database, err))
            ELSE GoOn("redis")
      [] step = "redis" -> IF err # NilError THEN GiveUp(err) ELSE GoOn("NewJobService")
      [] step = "NewJobService" -> GoOn("InitHandlers")
      [] step = "InitHandlers" -> GoOn("Start")
      [] step = "Start" -> IF err # NilError THEN GiveUp(err) ELSE GoOn("return")

\* New with the job server started before the handlers are initialized
NewAfterStartingFirst(step, err) ==
    CASE step = "database" ->
            IF err # NilError
            THEN GiveUp(Wrapped(P_failed_to_initialize_database, err))
            ELSE GoOn("redis")
      [] step = "redis" -> GoOn("NewJobService")
      [] step = "NewJobService" -> GoOn("Start")
      [] step = "Start" -> IF err # NilError THEN GiveUp(err) ELSE GoOn("InitHandlers")
      [] step = "InitHandlers" -> GoOn("return")

\* New: what follows each of its steps, err being the error the step gave
NewAfter(step, err) ==
    CASE step = "database" ->
            IF err # NilError
            THEN GiveUp(Wrapped(P_failed_to_initialize_database, err))
            ELSE GoOn("redis")
      [] step = "redis" -> GoOn("NewJobService")
      [] step = "NewJobService" -> GoOn("InitHandlers")
      [] step = "InitHandlers" -> GoOn("Start")
      [] step = "Start" -> IF err # NilError THEN GiveUp(err) ELSE GoOn("return")

\* Database.Close: it closes the pool and returns nil
DatabaseClose == NilError

\* Shutdown going on to the database after a failed HTTP server shutdown
ShutdownAfterIgnoringHTTPError(step, err, job) ==
    CASE step = "httpServer" -> GoOn("DB")
      [] step = "DB" ->
            IF err # NilError THEN GiveUp(Wrapped(P_failed_to_close_database, err))
            ELSE IF job THEN GoOn("Job") ELSE GoOn("return")
      [] step = "Job" -> GoOn("return")

\* Shutdown: what follows each of its steps; job tells whether s.Job is set
ShutdownAfter(step, err, job) ==
    CASE step = "httpServer" ->
            IF err # NilError
            THEN GiveUp(Wrapped(P_failed_to_shutdown_HTTP_server, err))
            ELSE GoOn("DB")
      [] step = "DB" ->
            IF err # NilError THEN GiveUp(Wrapped(P_failed_to_close_database, err))
            ELSE IF job THEN GoOn("Job") ELSE GoOn("return")
      [] step = "Job" -> GoOn("return")

\* handleWelcomeEmailTask: a payload that does not parse ends it before the
\* email client is used; with the package-level emailClient nil the call of
\* SendWelcomeEmail dereferences nil
HandleWelcomeEmailTask(client, payloadOk, sendOk) ==
    IF ~payloadOk THEN "bad_payload"
    ELSE IF client = "nil" THEN "panic"
    ELSE IF sendOk THEN "sent" ELSE "send_failed"

(***************************************************************************)
(* Package middleware: GlobalErrorHandler.                                 *)
(***************************************************************************)
\* the errors GlobalErrorHandler hands to sqlerr.HandleError, in order, with
\* the two tests that guard the call left out
ClassifierArgumentsUnguarded(err) == <<err>>

\* the errors GlobalErrorHandler hands to sqlerr.HandleError, in order: err
\* itself, when it is neither an Application Error nor a framework error
ClassifierArguments(err) ==
    IF ErrorsAs(err, "HTTPError") = NilError /\ ErrorsAs(err, "echo.HTTPError") = NilError
    THEN <<err>>
    ELSE <<>>

\* the first part: an error that is no Application Error is classified
ClassifyAtBoundary(err) ==
    IF ClassifierArguments(err) # <<>> THEN HandleError(ClassifierArguments(err)[1])
    ELSE IF ErrorsAs(err, "HTTPError") # NilError THEN err
    ELSE IF ErrorsAs(err, "echo.HTTPError") # NilError
    THEN IF ErrorsAs(err, "echo.HTTPError").Code = StatusNotFound
         THEN NewNotFoundError(S_Route_not_found, FALSE, NilCode)
         ELSE err
    ELSE err

\* the second part: the body of the JSON error response
ErrorResponseBody(err) ==
    LET final == ClassifyAtBoundary(err)
        httpErr == ErrorsAs(final, "HTTPError")
        echoErr == ErrorsAs(final, "echo.HTTPError")
    IN  CASE httpErr # NilError ->
                [Code |-> httpErr.Code, Message |-> httpErr.Message,
                 Status |-> httpErr.Status, Override |-> httpErr.Override,
                 Errors |-> httpErr.Errors, Action |-> httpErr.Action]
          [] httpErr = NilError /\ echoErr # NilError ->
                [Code |-> MakeUpperCaseWithUnderscores(StatusText(echoErr.Code)),
                 Message |-> IF echoErr.isString THEN echoErr.Message
                             ELSE StatusText(echoErr.Code),
                 Status |-> echoErr.Code, Override |-> FALSE,
                 Errors |-> NilFieldErrors, Action |-> NilAction]
          [] OTHER ->
                [Code |-> MakeUpperCaseWithUnderscores(
                              StatusText(StatusInternalServerError)),
                 Message |-> StatusText(StatusInternalServerError),
                 Status |-> StatusInternalServerError, Override |-> FALSE,
                 Errors |-> NilFieldErrors, Action |-> NilAction]

\* no body written
NoBody == [Status |-> 0]

\* the status the RequestLogger middleware measures for a request whose
\* handler chain returned err: the status of the response as it is then,
\* which is 200 while nothing was written, and the code of err when err is a
\* framework error
RequestLoggerValuesStatus(resStatus, err) ==
    IF err # NilError /\ ErrorsAs(err, "echo.HTTPError") # NilError
    THEN ErrorsAs(err, "echo.HTTPError").Code
    ELSE resStatus

\* LogValuesFunc: the status it logs
LoggedStatus(vStatus, vError) ==
    IF vError # NilError
    THEN IF ErrorsAs(vError, "HTTPError") # NilError
         THEN ErrorsAs(vError, "HTTPError").Status
         ELSE IF ErrorsAs(vError, "echo.HTTPError") # NilError
         THEN ErrorsAs(vError, "echo.HTTPError").Code
         ELSE vStatus
    ELSE vStatus

\* LogValuesFunc: the level of the "API" line
LogLevel(statusCode) ==
    IF statusCode >= 500 THEN "error"
    ELSE IF statusCode >= 400 THEN "warn"
    ELSE "info"

NoLog == [status |-> 0, level |-> "none"]

\* the write guard: the response is written only if none was written yet
WritesErrorResponseAlways(committed) == TRUE

WritesErrorResponse(committed) == ~committed

\* the error the Recover middleware makes of a panic
RecoveredPanic == ErrorString(M_panic_index)

\* the error the server hands to GlobalErrorHandler for what handleRequest did
BoundaryError(out) == IF out.kind = "panic" THEN RecoveredPanic ELSE out.err

(***************************************************************************)
(* Package middleware: RequestID and RequireAuth.  The echo context is a   *)
(* record of the keys the two middlewares set; a key that was never set    *)
(* holds NotSet.  The session claims Clerk's middleware puts in the        *)
(* request context are NoClaims while there are none.                      *)
(***************************************************************************)
NotSet == <<"nil">>

NoClaims == [type |-> "nil"]

SessionClaims(subject, role, permissions) ==
    [type |-> "SessionClaims", Subject |-> subject,
     ActiveOrganizationRole |-> role,
     ActiveOrganizationPermissions |-> permissions]

EmptyContext ==
    [request_id |-> NotSet, user_id |-> NotSet, user_role |-> NotSet,
     permissions |-> NotSet, claims |-> NoClaims]

\* RequestID with the generated ID preferred to the incoming header
RequestIDAlwaysGenerated(header, generated) == generated

\* RequestID: the incoming X-Request-ID header, or a new UUID when the
\* header is empty
RequestIDOf(header, generated) ==
    IF header = <<>> THEN generated ELSE header

GetRequestID(ctx) ==
    IF ctx.request_id # NotSet THEN ctx.request_id ELSE <<>>

\* clerkhttp.WithHeaderAuthorization: a request without an Authorization
\* header goes on without session claims, a token that does not verify goes
\* to the AuthorizationFailureHandler, a verified token goes on with its
\* claims in the request context
WithHeaderAuthorization(authorization) ==
    IF ~authorization.present THEN [kind |-> "next", claims |-> NoClaims]
    ELSE IF ~authorization.verifies THEN [kind |-> "failure", claims |-> NoClaims]
    ELSE [kind |-> "next", claims |-> authorization.claims]

\* the function RequireAuth wraps, with the test of ok left out
AfterSessionClaimsUnchecked(ctx) ==
    [kind |-> "next", err |-> NilError,
     ctx |-> [ctx EXCEPT !.user_id = <<>>, !.user_role = <<>>,
                         !.permissions = <<>>]]

\* the function RequireAuth wraps: without session claims it returns the
\* 401 Application Error, with them it stores the identity and goes on to
\* the next handler
AfterSessionClaims(ctx) ==
    IF ctx.claims = NoClaims
    THEN [kind |-> "return",
          err |-> NewUnauthorizedError(S_Unauthorized, FALSE), ctx |-> ctx]
    ELSE [kind |-> "next", err |-> NilError,
          ctx |-> [ctx EXCEPT !.user_id = ctx.claims.Subject,
                              !.user_role = ctx.claims.ActiveOrganizationRole,
                              !.permissions =
                                  ctx.claims.ActiveOrganizationPermissions]]

(***************************************************************************)
(* State.                                                                  *)
(***************************************************************************)
VARIABLES
    \* the database error classifier applied to one error, twice
    sqlPc,          \* "idle", "input", "classified" or "reclassified"
    sqlIn,          \* the error handed to HandleError
    sqlOut,         \* HandleError(sqlIn)
    sqlOut2,        \* HandleError(sqlOut)
    \* the validation adapter applied to one request
    valPc,          \* "idle", "input" or "returned"
    valBindErr,     \* what c.Bind(payload) returns
    valValidateErr, \* what payload.Validate() returns when it is invoked
    valOut,         \* what BindAndValidate did
    \* one route registered through Handle, HandleFile or HandleNoContent,
    \* and the requests it serves
    route,          \* the ResponseHandler of the registration
    payload,        \* the req value captured by the registration's closure
    pc,             \* where each request is
    body,           \* the fields present in each request's input
    bindPos,        \* how many fields c.Bind has gone through
    validation,     \* what BindAndValidate did for each request
    phases,         \* the phases handleRequest has entered, in order
    handlerReq,     \* the payload the business handler was handed
    handlerOut,     \* what the business handler did
    writerOut,      \* what responseHandler.Handle did
    ret,            \* what handleRequest did
    committed,      \* c.Response().Committed
    responses,      \* the responses written for each request, in order
    ehCalls,        \* invocations of GlobalErrorHandler
    errorBody,      \* the body GlobalErrorHandler wrote for each request
    \* GlobalErrorHandler invoked once for one error
    gehPc,          \* "idle", "input" or "handled"
    gehErr,         \* the error handed to GlobalErrorHandler
    gehCommitted,   \* c.Response().Committed when it is invoked
    gehClassified,  \* the errors it handed to sqlerr.HandleError, in order
    gehBody,        \* the body it wrote
    gehLog,         \* the status and level of the RequestLogger's "API" line
    \* one request going through RequestID, RequireAuth and the next handler
    mwPc,           \* where the request is in the middleware chain
    mwRequest,      \* the X-Request-ID and Authorization headers it came with
    mwContext,      \* the values set on the echo context, and the session claims
    mwHeader,       \* the X-Request-ID header of the response
    mwNext,         \* the context each invocation of the next handler was handed
    mwRet,          \* the error the chain returned
    mwResponse,     \* the status of the response written, 0 while there is none
    \* handleRequest run twice on one request, with a trace transaction in
    \* the request context (TRUE) and without one (FALSE)
    hrEnv,          \* the route, and what BindAndValidate, the business
                    \* handler and the framework's write do for the request
    hrPc,           \* where each run is
    hrCalls,        \* the calls each run made on the transaction, in order
    hrHandler,      \* what the business handler did in each run
    hrWriter,       \* what responseHandler.Handle was handed and did
    hrResponse,     \* the status each run wrote, 0 while there is none
    hrRet,          \* what handleRequest did in each run
    \* one call of CheckHealth
    hcPc,           \* "idle", "database", "redis", "respond" or "done"
    hcEnv,          \* what the pings and the write of the response do, and
                    \* whether a Redis client and a New Relic application exist
    hcIsHealthy,    \* the local isHealthy
    hcChecks,       \* the checks map of the response
    hcEvents,       \* the custom events recorded, in order
    hcResponse,     \* the status and body handed to c.JSON
    hcRet,          \* the error CheckHealth returned
    \* one process: server.New, the job worker, and Server.Shutdown
    srvPc,          \* the function running and the step it is at
    srvEnv,         \* what the dependencies do in this process
    srvLog,         \* the steps of New performed, in order
    emailClient,    \* the package-level emailClient of package job
    srvWorker,      \* whether the job worker server is processing tasks
    srvTasks,       \* how each welcome-email task handled so far ended
    srvServer,      \* the Server New returned, and its httpServer field
    srvNewErr,      \* the error New returned
    srvShutLog,     \* the steps of Shutdown performed, in order
    srvShutRet      \* what Shutdown did

sqlVars == <<sqlPc, sqlIn, sqlOut, sqlOut2>>
valVars == <<valPc, valBindErr, valValidateErr, valOut>>
pipeVars ==
    <<route, payload, pc, body, bindPos, phases, validation, handlerReq, handlerOut,
      writerOut, ret, committed, responses, ehCalls, errorBody>>
gehVars == <<gehPc, gehErr, gehCommitted, gehClassified, gehBody, gehLog>>
mwVars == <<mwPc, mwRequest, mwContext, mwHeader, mwNext, mwRet, mwResponse>>
hrVars == <<hrEnv, hrPc, hrCalls, hrHandler, hrWriter, hrResponse, hrRet>>
hcVars == <<hcPc, hcEnv, hcIsHealthy, hcChecks, hcEvents, hcResponse, hcRet>>
srvVars ==
    <<srvPc, srvEnv, srvLog, emailClient, srvWorker, srvTasks, srvServer, srvNewErr,
      srvShutLog, srvShutRet>>
sysVars == <<mwVars, hrVars, hcVars, srvVars>>
vars == <<sqlVars, valVars, pipeVars, gehVars, sysVars>>

MwIdle ==
    /\ mwPc = "idle"
    /\ mwRequest = [requestID |-> <<>>,
                    authorization |-> [present |-> FALSE, verifies |-> FALSE,
                                       claims |-> NoClaims]]
    /\ mwContext = EmptyContext
    /\ mwHeader = <<>>
    /\ mwNext = <<>>
    /\ mwRet = NilError
    /\ mwResponse = 0

NoEnv == [route |-> Handle(StatusOK), validation |-> NotCalled, handler |-> NoCall,
          value |-> "nil", how |-> "ok"]

NoWrite == [result |-> [dynType |-> "nil", value |-> "nil"], out |-> NoCall]

HrIdle ==
    /\ hrEnv = NoEnv
    /\ hrPc = [txn \in BOOLEAN |-> "idle"]
    /\ hrCalls = [txn \in BOOLEAN |-> <<>>]
    /\ hrHandler = [txn \in BOOLEAN |-> NoCall]
    /\ hrWriter = [txn \in BOOLEAN |-> NoWrite]
    /\ hrResponse = [txn \in BOOLEAN |-> 0]
    /\ hrRet = [txn \in BOOLEAN |-> NoCall]

NoHealthEnv ==
    [dbPing |-> NilError, redis |-> FALSE, redisPing |-> NilError,
     application |-> FALSE, write |-> NilError]

NoHealthResponse == [Status |-> 0, status |-> <<>>, checks |-> <<>>]

HcIdle ==
    /\ hcPc = "idle"
    /\ hcEnv = NoHealthEnv
    /\ hcIsHealthy = TRUE
    /\ hcChecks = [database |-> NoCheck, redis |-> NoCheck]
    /\ hcEvents = <<>>
    /\ hcResponse = NoHealthResponse
    /\ hcRet = NilError

NoSrvEnv ==
    [database |-> NilError, redisPing |-> NilError, application |-> FALSE,
     jobStart |-> NilError, httpShutdown |-> NilError]

NoServer == [type |-> "nil"]

SrvIdle ==
    /\ srvPc = <<"main", "start">>
    /\ srvEnv = NoSrvEnv
    /\ srvLog = <<>>
    /\ emailClient = "nil"
    /\ srvWorker = FALSE
    /\ srvTasks = <<>>
    /\ srvServer = NoServer
    /\ srvNewErr = NilError
    /\ srvShutLog = <<>>
    /\ srvShutRet = NoCall

SysIdle == MwIdle /\ HrIdle /\ HcIdle /\ SrvIdle

(***************************************************************************)
(* The errors a repository or service can hand to HandleError.             *)
(***************************************************************************)
SqlStates == {"23503", "23505", "23502", "23514", "40001", "42P01"}
TableNames == {<<>>, T_users, T_posts, T_s, T_company}
ColumnNames == {<<>>, C_user_id, C_email, C_first_name, C_Created_At}
ConstraintNames ==
    {<<>>, K_unique_users_email, K_unique_users_first_name, K_users_email_key,
     K_users_first_name_ukey, K_fk_posts_user}

DriverErrors ==
    {PgError(s, M_driver_text, t, c, k) :
        s \in SqlStates, t \in TableNames, c \in ColumnNames, k \in ConstraintNames}

ApplicationErrors ==
    {NewBadRequestError(S_Validation_failed, TRUE, NilCode,
                        <<FieldError(F_email, S_is_required)>>, NilAction),
     NewBadRequestError(M_not_allowed, FALSE, S_INVALID, NilFieldErrors,
                        [Type |-> "redirect", Message |-> M_login, Value |-> M_login]),
     NewNotFoundError(S_Resource_not_found, FALSE, NilCode),
     NewUnauthorizedError(M_missing_session, FALSE),
     NewForbiddenError(M_not_allowed, TRUE),
     NewInternalServerError}

NoRowsErrors ==
    {PgxErrNoRows, SqlErrNoRows}
    \cup {Wrapped(p, e) : p \in {P_table_users, P_table_empty, P_table_blank,
                                  P_query_failed},
                          e \in {PgxErrNoRows, SqlErrNoRows}}

UnknownErrors ==
    {ErrorString(M_connection_refused), ErrorString(M_driver_text),
     Wrapped(P_query_failed, ErrorString(M_connection_refused)),
     Wrapped(P_table_users, ErrorString(M_connection_refused))}

FrameworkErrors ==
    {EchoHTTPError(StatusNotFound, TRUE, S_Not_Found),
     EchoHTTPError(StatusTooManyRequests, TRUE, M_not_allowed),
     EchoHTTPError(StatusServiceUnavailable, FALSE, <<>>)}

SqlErrInputs ==
    DriverErrors \cup ApplicationErrors \cup NoRowsErrors \cup UnknownErrors
    \cup FrameworkErrors
    \cup {Wrapped(P_repository, e) :
            e \in ApplicationErrors \cup {d \in DriverErrors : d.ConstraintName = <<>>}}

(***************************************************************************)
(* HandleError as a repository calls it, and once more on its own result   *)
(* as the error handler does.                                              *)
(***************************************************************************)
SqlIdle ==
    /\ sqlPc = "idle"
    /\ sqlIn = NilError
    /\ sqlOut = NilError
    /\ sqlOut2 = NilError

GehIdle ==
    /\ gehPc = "idle"
    /\ gehErr = NilError
    /\ gehCommitted = FALSE
    /\ gehClassified = <<>>
    /\ gehBody = NoBody
    /\ gehLog = NoLog

ValIdle ==
    /\ valPc = "idle"
    /\ valBindErr = NilError
    /\ valValidateErr = NilError
    /\ valOut = NotCalled

\* no request has arrived
PipeStart ==
    /\ payload = ZeroPayload
    /\ pc = [r \in Requests |-> "idle"]
    /\ body = [r \in Requests |-> [f \in Fields |-> FALSE]]
    /\ bindPos = [r \in Requests |-> 0]
    /\ validation = [r \in Requests |-> NotCalled]
    /\ phases = [r \in Requests |-> <<>>]
    /\ handlerReq = [r \in Requests |-> ZeroPayload]
    /\ handlerOut = [r \in Requests |-> NoCall]
    /\ writerOut = [r \in Requests |-> NoCall]
    /\ ret = [r \in Requests |-> NoCall]
    /\ committed = [r \in Requests |-> FALSE]
    /\ responses = [r \in Requests |-> <<>>]
    /\ ehCalls = [r \in Requests |-> 0]
    /\ errorBody = [r \in Requests |-> NoBody]

PipeIdle ==
    /\ route = Handle(StatusOK)
    /\ PipeStart

SqlInit ==
    /\ sqlPc = "input"
    /\ sqlIn \in SqlErrInputs
    /\ sqlOut = NilError
    /\ sqlOut2 = NilError
    /\ ValIdle
    /\ PipeIdle
    /\ GehIdle
    /\ SysIdle

Classify ==
    /\ sqlPc = "input"
    /\ sqlOut' = HandleError(sqlIn)
    /\ sqlPc' = "classified"
    /\ UNCHANGED <<sqlIn, sqlOut2, valVars, pipeVars, gehVars, sysVars>>

ClassifyAgain ==
    /\ sqlPc = "classified"
    /\ sqlOut2' = HandleError(sqlOut)
    /\ sqlPc' = "reclassified"
    /\ UNCHANGED <<sqlIn, sqlOut, valVars, pipeVars, gehVars, sysVars>>

SqlNext == Classify \/ ClassifyAgain

SpecSqlErr == SqlInit /\ [][SqlNext]_vars

(***************************************************************************)
(* BindAndValidate on one request.                                         *)
(***************************************************************************)
\* the texts of the errors c.Bind returns: the framework's own format and
\* texts of other formats
BindErrorTexts == {B_syntax, B_type, B_media, B_eof, B_no_message, B_empty}

BindErrors == {ErrorString(t) : t \in BindErrorTexts}

TagViolations ==
    {TagViolation(F_Email, S_tag_required, <<>>, "string"),
     TagViolation(F_Email, S_tag_email, <<>>, "string"),
     TagViolation(F_Name, S_tag_min, N_8, "string"),
     TagViolation(F_age, S_tag_min, N_8, "int"),
     TagViolation(F_Name, S_tag_max, N_8, "string"),
     TagViolation(F_age, S_tag_max, N_8, "int"),
     TagViolation(F_Name, S_tag_oneof, N_admin_user, "string"),
     TagViolation(F_age, S_tag_gte, N_8, "int"),
     TagViolation(F_Name, S_tag_dive, <<>>, "slice"),
     TagViolation(F_Email, S_tag_uuid, <<>>, "string")}

CustomViolations ==
    {CustomValidationError(F_email, M_must_match),
     CustomValidationError(F_Name, S_is_required),
     CustomValidationError(<<>>, M_not_allowed)}

\* the sequences over S of length at most n
SeqsUpTo(S, n) == UNION {[1..k -> S] : k \in 0..n}

ValidateResults ==
    {NilError, ErrorString(M_not_allowed)}
    \cup {ValidationErrors(vs) : vs \in SeqsUpTo(TagViolations, MaxViolations)}
    \cup {CustomValidationErrors(vs) : vs \in SeqsUpTo(CustomViolations, MaxViolations)}

ValInit ==
    /\ valPc = "input"
    /\ valBindErr \in {NilError} \cup BindErrors
    /\ valValidateErr \in ValidateResults
    /\ valOut = NotCalled
    /\ SqlIdle
    /\ PipeIdle
    /\ GehIdle
    /\ SysIdle

CallBindAndValidate ==
    /\ valPc = "input"
    /\ valOut' = BindAndValidate(valBindErr, valValidateErr)
    /\ valPc' = "returned"
    /\ UNCHANGED <<valBindErr, valValidateErr, sqlVars, pipeVars, gehVars, sysVars>>

ValNext == CallBindAndValidate

SpecValidation == ValInit /\ [][ValNext]_vars

(***************************************************************************)
(* GlobalErrorHandler invoked for one error, with or without a response    *)
(* already committed.                                                      *)
(***************************************************************************)
\* framework errors of further status codes: one of status 500 with a text
\* of its own, one of a status that has no status text
\* the error the rate limiter's DenyHandler returns
RateLimitDenial == EchoHTTPError(StatusTooManyRequests, TRUE, S_Rate_limit_exceeded)

FrameworkErrorsOfAnyStatus ==
    FrameworkErrors
    \cup {EchoHTTPError(StatusInternalServerError, TRUE, M_connection_refused),
          EchoHTTPError(StatusInternalServerError, FALSE, <<>>),
          EchoHTTPError(599, TRUE, M_not_allowed),
          RateLimitDenial,
          Wrapped(P_repository, EchoHTTPError(StatusNotFound, TRUE, S_Not_Found))}

\* the Application Errors BindAndValidate returns
ValidationFailures ==
    {BindAndValidate(NilError, v).err :
        v \in {ValidationErrors(<<TagViolation(F_Email, S_tag_required, <<>>, "string")>>),
               CustomValidationErrors(<<CustomValidationError(F_email, M_must_match)>>)}}
    \cup {BindAndValidate(ErrorString(B_syntax), NilError).err}

BoundaryErrors ==
    SqlErrInputs \cup FrameworkErrorsOfAnyStatus \cup ValidationFailures
    \cup {RecoveredPanic}

GehInit ==
    /\ gehPc = "input"
    /\ gehErr \in BoundaryErrors
    /\ gehCommitted \in BOOLEAN
    /\ gehClassified = <<>>
    /\ gehBody = NoBody
    /\ gehLog = NoLog
    /\ SqlIdle
    /\ ValIdle
    /\ PipeIdle
    /\ SysIdle

\* the RequestLogger middleware, when the handler chain inside it has
\* returned the error: it writes its "API" line and returns the error
RequestLogger ==
    /\ gehPc = "input"
    /\ \E resStatus \in (IF gehCommitted THEN {StatusOK, StatusCreated} ELSE {StatusOK}) :
          LET statusCode ==
                  LoggedStatus(RequestLoggerValuesStatus(resStatus, gehErr), gehErr)
          IN  gehLog' = [status |-> statusCode, level |-> LogLevel(statusCode)]
    /\ gehPc' = "logged"
    /\ UNCHANGED <<gehErr, gehCommitted, gehClassified, gehBody,
                   sqlVars, valVars, pipeVars, sysVars>>

\* GlobalErrorHandler, invoked for an error that came through the
\* RequestLogger or for one returned by a middleware outside it
GlobalErrorHandler ==
    /\ gehPc \in {"input", "logged"}
    /\ gehClassified' = ClassifierArguments(gehErr)
    /\ gehBody' = IF WritesErrorResponse(gehCommitted)
                  THEN ErrorResponseBody(gehErr)
                  ELSE NoBody
    /\ gehCommitted' = (gehCommitted \/ WritesErrorResponse(gehCommitted))
    /\ gehPc' = "handled"
    /\ UNCHANGED <<gehErr, gehLog, sqlVars, valVars, pipeVars, sysVars>>

GehNext == RequestLogger \/ GlobalErrorHandler

SpecBoundary == GehInit /\ [][GehNext]_vars

(***************************************************************************)
(* One request through RequestID, RequireAuth and the handler the route    *)
(* registered behind them.                                                 *)
(***************************************************************************)
RequestIDHeaders == {<<>>, H_req_42, S_space}

GeneratedIDs == {U_uuid_a, U_uuid_b}

ClaimsOfTokens ==
    {SessionClaims(J_user_1, J_org_admin, <<J_perm_read, J_perm_manage>>),
     SessionClaims(J_user_2, J_org_member, <<>>),
     SessionClaims(J_user_2, <<>>, <<>>)}

Authorizations ==
    {[present |-> FALSE, verifies |-> FALSE, claims |-> NoClaims]}
    \cup {[present |-> TRUE, verifies |-> v, claims |-> c] :
            v \in BOOLEAN, c \in ClaimsOfTokens}

NextHandlerErrors ==
    {NilError, NewForbiddenError(M_not_allowed, TRUE),
     ErrorString(M_connection_refused)}

MwInit ==
    /\ MwIdle
    /\ SqlIdle
    /\ ValIdle
    /\ PipeIdle
    /\ GehIdle
    /\ HrIdle
    /\ HcIdle
    /\ SrvIdle

MwOthers == <<sqlVars, valVars, pipeVars, gehVars, hrVars, hcVars, srvVars>>

MwReceive ==
    /\ mwPc = "idle"
    /\ \E id \in RequestIDHeaders, a \in Authorizations :
          mwRequest' = [requestID |-> id, authorization |-> a]
    /\ mwPc' = "RequestID"
    /\ UNCHANGED <<mwContext, mwHeader, mwNext, mwRet, mwResponse, MwOthers>>

\* RequestID up to its call of next
RequestID ==
    /\ mwPc = "RequestID"
    /\ \E generated \in GeneratedIDs :
          LET requestID == RequestIDOf(mwRequest.requestID, generated)
          IN  /\ mwContext' = [mwContext EXCEPT !.request_id = requestID]
              /\ mwHeader' = requestID
    /\ mwPc' = "WithHeaderAuthorization"
    /\ UNCHANGED <<mwRequest, mwNext, mwRet, mwResponse, MwOthers>>

\* Clerk's middleware: it calls the function RequireAuth wraps, or the
\* AuthorizationFailureHandler, which writes the 401 itself
ClerkMiddleware ==
    /\ mwPc = "WithHeaderAuthorization"
    /\ LET out == WithHeaderAuthorization(mwRequest.authorization)
       IN  IF out.kind = "failure"
           THEN /\ mwResponse' = StatusUnauthorized
                /\ mwPc' = "done"
                /\ UNCHANGED mwContext
           ELSE /\ mwContext' = [mwContext EXCEPT !.claims = out.claims]
                /\ mwPc' = "RequireAuth"
                /\ UNCHANGED mwResponse
    /\ UNCHANGED <<mwRequest, mwHeader, mwNext, mwRet, MwOthers>>

\* the function RequireAuth wraps, up to its return or its call of next
RequireAuth ==
    /\ mwPc = "RequireAuth"
    /\ LET out == AfterSessionClaims(mwContext)
       IN  /\ mwContext' = out.ctx
           /\ mwRet' = out.err
           /\ mwPc' = IF out.kind = "next" THEN "next" ELSE "HTTPErrorHandler"
    /\ UNCHANGED <<mwRequest, mwHeader, mwNext, mwResponse, MwOthers>>

\* the next handler: it writes its response, or returns an error
NextHandler ==
    /\ mwPc = "next"
    /\ mwNext' = Append(mwNext, mwContext)
    /\ \E err \in NextHandlerErrors :
          /\ mwRet' = err
          /\ mwResponse' = IF err = NilError THEN StatusOK ELSE mwResponse
          /\ mwPc' = IF err = NilError THEN "done" ELSE "HTTPErrorHandler"
    /\ UNCHANGED <<mwRequest, mwContext, mwHeader, MwOthers>>

\* the server hands the error the chain returned to GlobalErrorHandler
MwHTTPErrorHandler ==
    /\ mwPc = "HTTPErrorHandler"
    /\ mwResponse' = ErrorResponseBody(mwRet).Status
    /\ mwPc' = "done"
    /\ UNCHANGED <<mwRequest, mwContext, mwHeader, mwNext, mwRet, MwOthers>>

MwNext ==
    \/ MwReceive
    \/ RequestID
    \/ ClerkMiddleware
    \/ RequireAuth
    \/ NextHandler
    \/ MwHTTPErrorHandler

SpecMiddleware == MwInit /\ [][MwNext]_vars

(***************************************************************************)
(* handleRequest on one request, run once with a trace transaction in the  *)
(* request context and once without, BindAndValidate, the business         *)
(* handler and the framework's write doing the same in both runs.          *)
(***************************************************************************)
ValidationOutcomes ==
    {BindAndValidate(NilError, NilError),
     BindAndValidate(ErrorString(B_syntax), NilError),
     BindAndValidate(ErrorString(B_empty), NilError),
     BindAndValidate(NilError,
        ValidationErrors(<<TagViolation(F_Email, S_tag_required, <<>>, "string")>>))}

\* the values a business handler returns beside its error
ResultValues(responseHandler) ==
    CASE responseHandler.kind = "json" -> {"value"}
      [] responseHandler.kind = "file" -> {"nil", "bytes"}
      [] responseHandler.kind = "no_content" -> {"nil"}

HrInit ==
    /\ HrIdle
    /\ SqlIdle
    /\ ValIdle
    /\ PipeIdle
    /\ GehIdle
    /\ MwIdle
    /\ HcIdle
    /\ SrvIdle

HrOthers == <<sqlVars, valVars, pipeVars, gehVars, mwVars, hcVars, srvVars>>

\* the request arrives, and with it what its collaborators will do
HrReceive ==
    /\ hrPc = [txn \in BOOLEAN |-> "idle"]
    /\ \E rt \in Routes, v \in ValidationOutcomes, h \in HandlerOutcomes :
       \E x \in ResultValues(rt), how \in WriteOutcomes(rt) :
          hrEnv' = [route |-> rt, validation |-> v, handler |-> h, value |-> x,
                    how |-> how]
    /\ hrPc' = [txn \in BOOLEAN |-> "entry"]
    /\ UNCHANGED <<hrCalls, hrHandler, hrWriter, hrResponse, hrRet, HrOthers>>

\* handleRequest up to BindAndValidate
HrEnter(txn) ==
    /\ hrPc[txn] = "entry"
    /\ hrCalls' = [hrCalls EXCEPT ![txn] = @ \o TraceAtEntry(txn, hrEnv.route)]
    /\ hrPc' = [hrPc EXCEPT ![txn] = "validation"]
    /\ UNCHANGED <<hrEnv, hrHandler, hrWriter, hrResponse, hrRet, HrOthers>>

\* BindAndValidate, and what follows it up to the business handler
HrValidate(txn) ==
    /\ hrPc[txn] = "validation"
    /\ LET step == AfterValidation(hrEnv.validation)
       IN  /\ hrCalls' = [hrCalls EXCEPT ![txn] =
                              @ \o TraceAfterValidation(txn, hrEnv.validation)]
           /\ hrPc' = [hrPc EXCEPT ![txn] = step.next]
           /\ hrRet' = [hrRet EXCEPT ![txn] = step.ret]
    /\ UNCHANGED <<hrEnv, hrHandler, hrWriter, hrResponse, HrOthers>>

\* the business handler, and what follows it up to responseHandler.Handle
HrInvokeHandler(txn) ==
    /\ hrPc[txn] = "handler"
    /\ LET step == AfterHandler(hrEnv.handler)
       IN  /\ hrHandler' = [hrHandler EXCEPT ![txn] = hrEnv.handler]
           /\ hrCalls' = [hrCalls EXCEPT ![txn] =
                  @ \o TraceAfterHandler(txn, hrEnv.route, hrEnv.handler,
                                         ClosureResult(hrEnv.route, hrEnv.value))]
           /\ hrPc' = [hrPc EXCEPT ![txn] = step.next]
           /\ hrRet' = [hrRet EXCEPT ![txn] = step.ret]
    /\ UNCHANGED <<hrEnv, hrWriter, hrResponse, HrOthers>>

\* responseHandler.Handle(c, result)
HrWriteResponse(txn) ==
    /\ hrPc[txn] = "write"
    /\ LET result == ClosureResult(hrEnv.route, hrEnv.value)
           out == ResponseHandle(hrEnv.route, result.dynType, hrEnv.how)
           step == AfterWrite(out)
       IN  /\ hrWriter' = [hrWriter EXCEPT ![txn] = [result |-> result, out |-> out]]
           /\ hrResponse' = [hrResponse EXCEPT ![txn] =
                  IF out.kind = "return" /\ hrEnv.how # "fail_uncommitted"
                  THEN hrEnv.route.status ELSE @]
           /\ hrPc' = [hrPc EXCEPT ![txn] = step.next]
           /\ hrRet' = [hrRet EXCEPT ![txn] = step.ret]
    /\ UNCHANGED <<hrEnv, hrCalls, hrHandler, HrOthers>>

\* the error handleRequest returned reaches GlobalErrorHandler
HrErrorHandler(txn) ==
    /\ hrPc[txn] = "error"
    /\ hrResponse' = [hrResponse EXCEPT ![txn] =
          IF WritesErrorResponse(@ # 0)
          THEN ErrorResponseBody(BoundaryError(hrRet[txn])).Status ELSE @]
    /\ hrPc' = [hrPc EXCEPT ![txn] = "done"]
    /\ UNCHANGED <<hrEnv, hrCalls, hrHandler, hrWriter, hrRet, HrOthers>>

HrNext ==
    \/ HrReceive
    \/ \E txn \in BOOLEAN :
          \/ HrEnter(txn)
          \/ HrValidate(txn)
          \/ HrInvokeHandler(txn)
          \/ HrWriteResponse(txn)
          \/ HrErrorHandler(txn)

SpecHandleRequest == HrInit /\ [][HrNext]_vars

(***************************************************************************)
(* One call of CheckHealth.                                                *)
(***************************************************************************)
PingErrors == {NilError, ErrorString(M_connection_refused), ErrorString(M_driver_text)}

HealthEnvs ==
    {[dbPing |-> d, redis |-> FALSE, redisPing |-> NilError, application |-> a,
      write |-> w] :
        d \in PingErrors, a \in BOOLEAN, w \in {NilError, ErrorString(M_write_failed)}}
    \cup
    {[dbPing |-> d, redis |-> TRUE, redisPing |-> p, application |-> a, write |-> w] :
        d \in PingErrors, p \in PingErrors, a \in BOOLEAN,
        w \in {NilError, ErrorString(M_write_failed)}}

HcInit ==
    /\ HcIdle
    /\ SqlIdle
    /\ ValIdle
    /\ PipeIdle
    /\ GehIdle
    /\ MwIdle
    /\ HrIdle
    /\ SrvIdle

HcOthers == <<sqlVars, valVars, pipeVars, gehVars, mwVars, hrVars, srvVars>>

HcReceive ==
    /\ hcPc = "idle"
    /\ hcEnv' \in HealthEnvs
    /\ hcPc' = "database"
    /\ UNCHANGED <<hcIsHealthy, hcChecks, hcEvents, hcResponse, hcRet, HcOthers>>

\* the database connectivity check
CheckDatabase ==
    /\ hcPc = "database"
    /\ hcChecks' = [hcChecks EXCEPT !.database = CheckEntry(hcEnv.dbPing)]
    /\ hcIsHealthy' = HealthyAfterDatabase(hcIsHealthy, hcEnv.dbPing)
    /\ hcEvents' = hcEvents \o
          (IF hcEnv.dbPing # NilError
           THEN HealthEvents(hcEnv.application, <<"database_unhealthy">>) ELSE <<>>)
    /\ hcPc' = "redis"
    /\ UNCHANGED <<hcEnv, hcResponse, hcRet, HcOthers>>

\* the Redis connectivity check, made when a Redis client exists
CheckRedis ==
    /\ hcPc = "redis"
    /\ IF hcEnv.redis
       THEN /\ hcChecks' = [hcChecks EXCEPT !.redis = CheckEntry(hcEnv.redisPing)]
            /\ hcIsHealthy' = HealthyAfterRedis(hcIsHealthy, hcEnv.redisPing)
            /\ hcEvents' = hcEvents \o
                  (IF hcEnv.redisPing # NilError
                   THEN HealthEvents(hcEnv.application, <<"redis_unhealthy">>)
                   ELSE <<>>)
       ELSE UNCHANGED <<hcChecks, hcIsHealthy, hcEvents>>
    /\ hcPc' = "respond"
    /\ UNCHANGED <<hcEnv, hcResponse, hcRet, HcOthers>>

\* the overall status and the response
HealthRespond ==
    /\ hcPc = "respond"
    /\ hcResponse' = HealthResponse(hcIsHealthy, hcChecks)
    /\ hcEvents' = hcEvents \o
          (IF ~hcIsHealthy
           THEN HealthEvents(hcEnv.application, <<"overall_unhealthy">>)
           ELSE IF hcEnv.write # NilError
           THEN HealthEvents(hcEnv.application, <<"json_response_error">>)
           ELSE <<>>)
    /\ hcRet' = IF ~hcIsHealthy THEN hcEnv.write
                ELSE IF hcEnv.write # NilError
                THEN Wrapped(P_failed_to_write, hcEnv.write)
                ELSE NilError
    /\ hcPc' = "done"
    /\ UNCHANGED <<hcEnv, hcIsHealthy, hcChecks, HcOthers>>

HcNext ==
    \/ HcReceive
    \/ CheckDatabase
    \/ CheckRedis
    \/ HealthRespond

SpecHealth == HcInit /\ [][HcNext]_vars

(***************************************************************************)
(* One process: New builds the Server, the job worker handles tasks from   *)
(* the moment it is started, SetupHTTPServer configures the HTTP server,   *)
(* and Shutdown stops everything.                                          *)
(***************************************************************************)
DatabaseErrors ==
    {NilError,
     Wrapped(P_failed_to_create_pgx_pool, ErrorString(M_driver_text)),
     Wrapped(P_failed_to_ping_database, ErrorString(M_connection_refused))}

DependencyErrors == {NilError, ErrorString(M_connection_refused)}

SrvEnvs ==
    {[database |-> d, redisPing |-> r, application |-> a, jobStart |-> j,
      httpShutdown |-> h] :
        d \in DatabaseErrors, r \in DependencyErrors, a \in BOOLEAN,
        j \in DependencyErrors,
        h \in {NilError, ErrorString(M_context_deadline)}}

SrvInit ==
    /\ SrvIdle
    /\ SqlIdle
    /\ ValIdle
    /\ PipeIdle
    /\ GehIdle
    /\ MwIdle
    /\ HrIdle
    /\ HcIdle

SrvOthers == <<sqlVars, valVars, pipeVars, gehVars, mwVars, hrVars, hcVars>>

\* a step of New has been performed and gave err
NewStep(step, err) ==
    /\ srvLog' = Append(srvLog, step)
    /\ srvPc' = <<"New", NewAfter(step, err).next>>
    /\ srvNewErr' = NewAfter(step, err).ret

\* main calls server.New
CallNew ==
    /\ srvPc = <<"main", "start">>
    /\ srvEnv' \in SrvEnvs
    /\ srvPc' = <<"New", "database">>
    /\ UNCHANGED <<srvLog, emailClient, srvWorker, srvTasks, srvServer, srvNewErr,
                   srvShutLog, srvShutRet, SrvOthers>>

\* database.New, which pings the database
NewDatabase ==
    /\ srvPc = <<"New", "database">>
    /\ NewStep("database", srvEnv.database)
    /\ UNCHANGED <<srvEnv, emailClient, srvWorker, srvTasks, srvServer, srvShutLog,
                   srvShutRet, SrvOthers>>

\* redis.NewClient, the New Relic hook, and the ping
NewRedis ==
    /\ srvPc = <<"New", "redis">>
    /\ NewStep("redis", srvEnv.redisPing)
    /\ UNCHANGED <<srvEnv, emailClient, srvWorker, srvTasks, srvServer, srvShutLog,
                   srvShutRet, SrvOthers>>

NewJobService ==
    /\ srvPc = <<"New", "NewJobService">>
    /\ NewStep("NewJobService", NilError)
    /\ UNCHANGED <<srvEnv, emailClient, srvWorker, srvTasks, srvServer, srvShutLog,
                   srvShutRet, SrvOthers>>

\* JobService.InitHandlers sets the package-level emailClient
InitHandlers ==
    /\ srvPc = <<"New", "InitHandlers">>
    /\ NewStep("InitHandlers", NilError)
    /\ emailClient' = "client"
    /\ UNCHANGED <<srvEnv, srvWorker, srvTasks, srvServer, srvShutLog, srvShutRet,
                   SrvOthers>>

\* JobService.Start: the worker server processes tasks once it has started
StartJobs ==
    /\ srvPc = <<"New", "Start">>
    /\ NewStep("Start", srvEnv.jobStart)
    /\ srvWorker' = (srvEnv.jobStart = NilError)
    /\ UNCHANGED <<srvEnv, emailClient, srvTasks, srvServer, srvShutLog, srvShutRet,
                   SrvOthers>>

\* New returns the Server
NewReturn ==
    /\ srvPc = <<"New", "return">>
    /\ srvServer' = [type |-> "Server", Redis |-> TRUE, Job |-> TRUE,
                     httpServer |-> FALSE]
    /\ srvPc' = <<"main", "ready">>
    /\ UNCHANGED <<srvEnv, srvLog, emailClient, srvWorker, srvTasks, srvNewErr,
                   srvShutLog, srvShutRet, SrvOthers>>

\* New returns nil and its error, and main exits
NewFailed ==
    /\ srvPc = <<"New", "failed">>
    /\ srvPc' = <<"main", "exit">>
    /\ UNCHANGED <<srvEnv, srvLog, emailClient, srvWorker, srvTasks, srvServer,
                   srvNewErr, srvShutLog, srvShutRet, SrvOthers>>

\* the worker server hands a welcome-email task to handleWelcomeEmailTask
HandleTask ==
    /\ srvWorker
    /\ Len(srvTasks) < MaxTasks
    /\ \E payloadOk \in BOOLEAN, sendOk \in BOOLEAN :
          srvTasks' = Append(srvTasks,
                             HandleWelcomeEmailTask(emailClient, payloadOk, sendOk))
    /\ UNCHANGED <<srvPc, srvEnv, srvLog, emailClient, srvWorker, srvServer, srvNewErr,
                   srvShutLog, srvShutRet, SrvOthers>>

SetupHTTPServer ==
    /\ srvPc = <<"main", "ready">>
    /\ ~srvServer.httpServer
    /\ srvServer' = [srvServer EXCEPT !.httpServer = TRUE]
    /\ UNCHANGED <<srvPc, srvEnv, srvLog, emailClient, srvWorker, srvTasks, srvNewErr,
                   srvShutLog, srvShutRet, SrvOthers>>

\* a step of Shutdown has been performed and gave err
ShutdownStep(step, err) ==
    /\ srvShutLog' = Append(srvShutLog, step)
    /\ srvPc' = <<"Shutdown", ShutdownAfter(step, err, srvServer.Job).next>>
    /\ srvShutRet' =
          IF ShutdownAfter(step, err, srvServer.Job).next = "failed"
          THEN Return(ShutdownAfter(step, err, srvServer.Job).ret)
          ELSE srvShutRet

\* main calls Shutdown
CallShutdown ==
    /\ srvPc = <<"main", "ready">>
    /\ srvPc' = <<"Shutdown", "httpServer">>
    /\ UNCHANGED <<srvEnv, srvLog, emailClient, srvWorker, srvTasks, srvServer,
                   srvNewErr, srvShutLog, srvShutRet, SrvOthers>>

\* s.httpServer.Shutdown(ctx); on a Server whose httpServer was never set
\* up the call dereferences nil
ShutdownHTTPServer ==
    /\ srvPc = <<"Shutdown", "httpServer">>
    /\ IF srvServer.httpServer
       THEN ShutdownStep("httpServer", srvEnv.httpShutdown)
       ELSE /\ srvPc' = <<"Shutdown", "failed">>
            /\ srvShutRet' = Panic
            /\ UNCHANGED srvShutLog
    /\ UNCHANGED <<srvEnv, srvLog, emailClient, srvWorker, srvTasks, srvServer,
                   srvNewErr, SrvOthers>>

\* s.DB.Close()
CloseDatabase ==
    /\ srvPc = <<"Shutdown", "DB">>
    /\ ShutdownStep("DB", DatabaseClose)
    /\ UNCHANGED <<srvEnv, srvLog, emailClient, srvWorker, srvTasks, srvServer,
                   srvNewErr, SrvOthers>>

\* s.Job.Stop()
StopJobs ==
    /\ srvPc = <<"Shutdown", "Job">>
    /\ ShutdownStep("Job", NilError)
    /\ srvWorker' = FALSE
    /\ UNCHANGED <<srvEnv, srvLog, emailClient, srvTasks, srvServer, srvNewErr,
                   SrvOthers>>

\* Shutdown returns nil
ShutdownReturn ==
    /\ srvPc = <<"Shutdown", "return">>
    /\ srvShutRet' = Return(NilError)
    /\ srvPc' = <<"main", "exit">>
    /\ UNCHANGED <<srvEnv, srvLog, emailClient, srvWorker, srvTasks, srvServer,
                   srvNewErr, srvShutLog, SrvOthers>>

SrvNext ==
    \/ CallNew
    \/ NewDatabase
    \/ NewRedis
    \/ NewJobService
    \/ InitHandlers
    \/ StartJobs
    \/ NewReturn
    \/ NewFailed
    \/ HandleTask
    \/ SetupHTTPServer
    \/ CallShutdown
    \/ ShutdownHTTPServer
    \/ CloseDatabase
    \/ StopJobs
    \/ ShutdownReturn

SpecServer == SrvInit /\ [][SrvNext]_vars

(***************************************************************************)
(* The route serving its requests.  Every request runs the closure the     *)
(* registration returned, and every run of the closure hands the same req  *)
(* to handleRequest.                                                       *)
(***************************************************************************)
Init ==
    /\ route \in Routes
    /\ PipeStart
    /\ SqlIdle
    /\ ValIdle
    /\ GehIdle
    /\ SysIdle

\* the errors c.Bind returns in the pipeline
PipelineBindErrors == {ErrorString(B_syntax), ErrorString(B_eof)}

\* handleRequest enters a phase, and ends with outcome step.ret or goes on
\* to step.next
Advance(r, phase, step) ==
    /\ phases' = [phases EXCEPT ![r] = Append(@, phase)]
    /\ pc' = [pc EXCEPT ![r] = step.next]
    /\ ret' = [ret EXCEPT ![r] = step.ret]

\* a request arrives: the closure calls handleRequest(c, req, ...), which
\* reaches BindAndValidate
Receive(r) ==
    /\ pc[r] = "idle"
    /\ \E b \in [Fields -> BOOLEAN] : body' = [body EXCEPT ![r] = b]
    /\ pc' = [pc EXCEPT ![r] = "bind"]
    /\ UNCHANGED <<route, payload, bindPos, phases, validation, handlerReq, handlerOut,
                   writerOut, ret, committed, responses, ehCalls, errorBody,
                   sqlVars, valVars, gehVars, sysVars>>

\* the same, on a server that takes up a request only when every other one
\* has been served and released
NoneInFlight == \A s \in Requests : pc[s] = "idle"

ReceiveSerial(r) == NoneInFlight /\ Receive(r)

\* c.Bind goes through the next field: a field present in the input is
\* written into the payload, an absent one is left as it is.  The value
\* request r binds is r.
BindField(r) ==
    /\ pc[r] = "bind"
    /\ bindPos[r] < Len(FieldOrder)
    /\ LET f == FieldOrder[bindPos[r] + 1]
       IN  payload' = IF body[r][f] THEN [payload EXCEPT ![f] = r] ELSE payload
    /\ bindPos' = [bindPos EXCEPT ![r] = @ + 1]
    /\ UNCHANGED <<route, pc, body, phases, validation, handlerReq, handlerOut,
                   writerOut, ret, committed, responses, ehCalls, errorBody,
                   sqlVars, valVars, gehVars, sysVars>>

\* c.Bind returns an error (a malformed input, at any point of the
\* binding): BindAndValidate takes its first branch and handleRequest its
\* validation-failure branch
BindError(r) ==
    /\ pc[r] = "bind"
    /\ \E e \in PipelineBindErrors :
        LET out == BindAndValidate(e, NilError)
        IN  /\ validation' = [validation EXCEPT ![r] = out]
            /\ Advance(r, "validation", AfterValidation(out))
    /\ UNCHANGED <<route, payload, body, bindPos, handlerReq, handlerOut, writerOut,
                   committed, responses, ehCalls, errorBody,
                   sqlVars, valVars, gehVars, sysVars>>

\* c.Bind returns nil: BindAndValidate validates the payload as it is now,
\* and handleRequest returns the error or goes on to the handler
ValidatePayload(r) ==
    /\ pc[r] = "bind"
    /\ bindPos[r] = Len(FieldOrder)
    /\ LET out == BindAndValidate(NilError, Validate(payload))
       IN  /\ validation' = [validation EXCEPT ![r] = out]
           /\ Advance(r, "validation", AfterValidation(out))
    /\ UNCHANGED <<route, payload, body, bindPos, handlerReq, handlerOut, writerOut,
                   committed, responses, ehCalls, errorBody,
                   sqlVars, valVars, gehVars, sysVars>>

\* handler(c, req): the business handler runs on the payload as it is now
InvokeHandler(r) ==
    /\ pc[r] = "handler"
    /\ handlerReq' = [handlerReq EXCEPT ![r] = payload]
    /\ \E out \in HandlerOutcomes :
        /\ handlerOut' = [handlerOut EXCEPT ![r] = out]
        /\ Advance(r, "handler", AfterHandler(out))
    /\ UNCHANGED <<route, payload, body, bindPos, validation, writerOut, committed,
                   responses, ehCalls, errorBody,
                   sqlVars, valVars, gehVars, sysVars>>

\* responseHandler.Handle(c, result)
WriteResponse(r) ==
    /\ pc[r] = "write"
    /\ \E how \in WriteOutcomes(route) :
        LET out == ResponseHandle(route, ResultType(route), how)
            sent == out.kind = "return" /\ how # "fail_uncommitted"
        IN  /\ writerOut' = [writerOut EXCEPT ![r] = out]
            /\ committed' = [committed EXCEPT ![r] = @ \/ sent]
            /\ responses' = [responses EXCEPT ![r] =
                    IF sent THEN Append(@, [by |-> "writer", status |-> route.status])
                    ELSE @]
            /\ Advance(r, "response", AfterWrite(out))
    /\ UNCHANGED <<route, payload, body, bindPos, validation, handlerReq, handlerOut,
                   ehCalls, errorBody,
                   sqlVars, valVars, gehVars, sysVars>>

\* the server, or a middleware on the way up, hands the request's error to
\* GlobalErrorHandler
ErrorHandler(r) ==
    /\ pc[r] = "error"
    /\ ehCalls[r] < MaxErrorHandlerCalls
    /\ ehCalls' = [ehCalls EXCEPT ![r] = @ + 1]
    /\ LET resp == ErrorResponseBody(BoundaryError(ret[r]))
           write == WritesErrorResponse(committed[r])
       IN  /\ responses' = [responses EXCEPT ![r] =
                    IF write
                    THEN Append(@, [by |-> "error_handler", status |-> resp.Status])
                    ELSE @]
           /\ committed' = [committed EXCEPT ![r] = @ \/ write]
           /\ errorBody' = [errorBody EXCEPT ![r] = IF write THEN resp ELSE @]
    /\ UNCHANGED <<route, payload, pc, body, bindPos, phases, validation, handlerReq,
                   handlerOut, writerOut, ret, sqlVars, valVars, gehVars, sysVars>>

\* the request ends after its error has been handled
Finish(r) ==
    /\ pc[r] = "error"
    /\ ehCalls[r] >= 1
    /\ pc' = [pc EXCEPT ![r] = "done"]
    /\ UNCHANGED <<route, payload, body, bindPos, phases, validation, handlerReq,
                   handlerOut, writerOut, ret, committed, responses, ehCalls,
                   errorBody,
                   sqlVars, valVars, gehVars, sysVars>>

\* the request's context is discarded; the payload captured by the
\* registration stays
Release(r) ==
    /\ pc[r] = "done"
    /\ pc' = [pc EXCEPT ![r] = "idle"]
    /\ body' = [body EXCEPT ![r] = [f \in Fields |-> FALSE]]
    /\ bindPos' = [bindPos EXCEPT ![r] = 0]
    /\ phases' = [phases EXCEPT ![r] = <<>>]
    /\ validation' = [validation EXCEPT ![r] = NotCalled]
    /\ handlerReq' = [handlerReq EXCEPT ![r] = ZeroPayload]
    /\ handlerOut' = [handlerOut EXCEPT ![r] = NoCall]
    /\ writerOut' = [writerOut EXCEPT ![r] = NoCall]
    /\ ret' = [ret EXCEPT ![r] = NoCall]
    /\ committed' = [committed EXCEPT ![r] = FALSE]
    /\ responses' = [responses EXCEPT ![r] = <<>>]
    /\ ehCalls' = [ehCalls EXCEPT ![r] = 0]
    /\ errorBody' = [errorBody EXCEPT ![r] = NoBody]
    /\ UNCHANGED <<route, payload, sqlVars, valVars, gehVars, sysVars>>

Serve(r) ==
    \/ BindField(r)
    \/ BindError(r)
    \/ ValidatePayload(r)
    \/ InvokeHandler(r)
    \/ WriteResponse(r)
    \/ ErrorHandler(r)
    \/ Finish(r)

Next == \E r \in Requests : Receive(r) \/ Serve(r)

Spec == Init /\ [][Next]_vars

SerialNext == \E r \in Requests : ReceiveSerial(r) \/ Serve(r) \/ Release(r)

SpecSerial == Init /\ [][SerialNext]_vars

(***************************************************************************)
(* Properties.                                                             *)
(***************************************************************************)
\* the number of times handleRequest entered a phase for request r
PhaseCount(r, phase) == Cardinality({i \in 1..Len(phases[r]) : phases[r][i] = phase})

\* sequence s is an initial part of sequence t
IsPrefix(s, t) == Len(s) <= Len(t) /\ SubSeq(t, 1, Len(s)) = s

\* the payload a request's own input alone produces: the fields it carries
\* hold its values, the fields it omits hold their zero value
OwnPayload(r) == [f \in Fields |-> IF body[r][f] THEN r ELSE Zero]

\* C1: for requests served concurrently by one registered route, the payload
\* handed to a request's business handler holds, in every field the request
\* carried, the value bound from that request's own input, never a value
\* bound from another request's input.
C1_PayloadPrivateToRequest ==
    \A r \in Requests :
        PhaseCount(r, "handler") > 0 =>
            \A f \in Fields : body[r][f] => handlerReq[r][f] = r

\* C2: for requests served one after another by one registered route, the
\* payload validated and handed to the business handler is the one the
\* request's own input produces: a field the request omits holds its zero
\* value, not a value an earlier request bound.
C2_PayloadFromOwnInputOnly ==
    \A r \in Requests :
        /\ validation[r].validated =>
                validation[r] = BindAndValidate(NilError, Validate(OwnPayload(r)))
        /\ PhaseCount(r, "handler") > 0 => handlerReq[r] = OwnPayload(r)

\* C3: whenever BindAndValidate returns an error, the business handler and
\* the response writer's Handle are invoked zero times for that request and
\* handleRequest has returned that error.
C3_ValidationFailureIsFailFast ==
    \A r \in Requests :
        (validation[r].kind = "return" /\ validation[r].err # NilError) =>
            /\ PhaseCount(r, "handler") = 0
            /\ PhaseCount(r, "response") = 0
            /\ ret[r] = Return(validation[r].err)
            /\ pc[r] \in {"error", "done"}

\* C3 witness: a request whose validation failed has been served to its end.
C3_Witness ==
    \E r \in Requests :
        /\ pc[r] = "done"
        /\ validation[r].validated
        /\ validation[r].err # NilError
        /\ ret[r].err = validation[r].err

\* C4: the phases of handleRequest occur in the order validation, handler,
\* response, each at most once; the handler runs only after validation
\* succeeded and the response writer only after the handler returned no
\* error.
C4_PhaseOrder ==
    \A r \in Requests :
        /\ IsPrefix(phases[r], <<"validation", "handler", "response">>)
        /\ PhaseCount(r, "handler") > 0 => validation[r] = Returned(NilError, TRUE)
        /\ PhaseCount(r, "response") > 0 => handlerOut[r] = Return(NilError)
        /\ (handlerOut[r].kind = "return" /\ handlerOut[r].err # NilError) =>
                PhaseCount(r, "response") = 0

\* C4 witness: a request went through all three phases and was served to
\* its end.
C4_Witness ==
    \E r \in Requests :
        /\ phases[r] = <<"validation", "handler", "response">>
        /\ pc[r] = "done"

\* C7: handleRequest returns exactly the error BindAndValidate returned,
\* exactly the error the business handler returned, and nil only when the
\* handler succeeded and the response writer returned nil.
C7_ErrorsPropagateUnchanged ==
    \A r \in Requests :
        /\ (validation[r].kind = "return" /\ validation[r].err # NilError) =>
                ret[r] = Return(validation[r].err)
        /\ (handlerOut[r].kind = "return" /\ handlerOut[r].err # NilError) =>
                ret[r] = Return(handlerOut[r].err)
        /\ ret[r] = Return(NilError) =>
                /\ handlerOut[r] = Return(NilError)
                /\ writerOut[r] = Return(NilError)

\* C7 witness: a handler returned a raw driver error and handleRequest
\* returned that very error.
C7_Witness ==
    \E r \in Requests :
        /\ handlerOut[r].kind = "return"
        /\ handlerOut[r].err.type = "PgError"
        /\ ret[r] = Return(handlerOut[r].err)
        /\ pc[r] = "done"

\* the responses written for request r by one of the two writers
WrittenBy(r, who) ==
    Cardinality({i \in 1..Len(responses[r]) : responses[r][i].by = who})

\* C8: across the response writer and GlobalErrorHandler at most one
\* response is written per request; GlobalErrorHandler, once invoked, has
\* written exactly one error response if the response writer committed none
\* and nothing if it did, however often it is invoked.
C8_AtMostOneResponse ==
    \A r \in Requests :
        /\ Len(responses[r]) <= 1
        /\ WrittenBy(r, "error_handler") =
                IF ehCalls[r] >= 1 /\ WrittenBy(r, "writer") = 0 THEN 1 ELSE 0
        /\ committed[r] <=> Len(responses[r]) = 1

\* C8 witness: the response writer committed a response and failed, and
\* GlobalErrorHandler was then invoked for the error and wrote nothing.
C8_Witness ==
    \E r \in Requests :
        /\ ehCalls[r] >= 1
        /\ writerOut[r].kind = "return"
        /\ writerOut[r].err # NilError
        /\ responses[r] = <<[by |-> "writer", status |-> route.status]>>

\* the violations a ValidationErrors or CustomValidationErrors value
\* reports, as the field errors they are to become
ReportedFieldErrors(err) ==
    [i \in 1..Len(err.errs) |->
        IF err.type = "ValidationErrors"
        THEN FieldError(ToLower(err.errs[i].Field), TagMessage(err.errs[i]))
        ELSE FieldError(err.errs[i].Field, err.errs[i].Message)]

\* C5: whenever payload.Validate() returns a non-nil tag-based or custom
\* violation collection, of any size, BindAndValidate returns a 400
\* Application Error with override=true whose field errors are the reported
\* violations, one entry each, in the reported order.
C5_ValidationFailureIs400 ==
    (/\ valPc = "returned"
     /\ valBindErr = NilError
     /\ valValidateErr.type \in {"ValidationErrors", "CustomValidationErrors"}) =>
        /\ valOut.kind = "return"
        /\ valOut.err.type = "HTTPError"
        /\ valOut.err.Status = StatusBadRequest
        /\ valOut.err.Override = TRUE
        /\ valOut.err.Errors = ReportedFieldErrors(valValidateErr)

\* C6: for every error c.Bind returns, whatever its text, BindAndValidate
\* returns an Application Error with status 400 and does not invoke
\* payload.Validate().
C6_BindFailureIs400 ==
    (valPc = "returned" /\ valBindErr # NilError) =>
        /\ valOut.kind = "return"
        /\ valOut.err.type = "HTTPError"
        /\ valOut.err.Status = StatusBadRequest
        /\ ~valOut.validated

\* C9: HandleError returns an error that already is an Application Error as
\* it is, and applying HandleError to its own result changes nothing.
C9_HandleErrorIdempotent ==
    /\ (sqlPc \in {"classified", "reclassified"}
            /\ ErrorsAs(sqlIn, "HTTPError") # NilError) => sqlOut = sqlIn
    /\ sqlPc = "reclassified" => sqlOut2 = sqlOut

\* C9 witness: an Application Error went through HandleError twice.
C9_Witness ==
    /\ sqlPc = "reclassified"
    /\ sqlIn.type = "HTTPError"
    /\ sqlIn.Status = StatusBadRequest
    /\ sqlOut2 = sqlIn

\* a driver error of an unrecognized violation kind
IsOtherDriverError(err) ==
    /\ ErrorsAs(err, "HTTPError") = NilError
    /\ ErrorsAs(err, "PgError") # NilError
    /\ MapCode(ErrorsAs(err, "PgError").Code) = Other

\* an error that is no Application Error, no driver error and no no-rows
\* sentinel
IsUnknownError(err) ==
    /\ ErrorsAs(err, "HTTPError") = NilError
    /\ ErrorsAs(err, "PgError") = NilError
    /\ ~ErrorsIs(err, PgxErrNoRows)
    /\ ~ErrorsIs(err, SqlErrNoRows)

\* C10: for every driver error of an unrecognized kind and every unknown
\* error HandleError returns the one 500 Application Error with the fixed
\* code and message, so the answer is the same for any two such inputs and
\* carries nothing of the input.
C10_UnknownErrorsAreGeneric500 ==
    (sqlPc \in {"classified", "reclassified"}
        /\ (IsOtherDriverError(sqlIn) \/ IsUnknownError(sqlIn))) =>
            /\ sqlOut = NewInternalServerError
            /\ sqlOut.Status = StatusInternalServerError
            /\ sqlOut.Code = S_INTERNAL_SERVER_ERROR
            /\ sqlOut.Message = S_Internal_Server_Error

\* C10 witness: a driver error of an unrecognized kind that names a table,
\* a column and a constraint has been classified.
C10_Witness ==
    /\ sqlPc = "classified"
    /\ sqlIn.type = "PgError"
    /\ IsOtherDriverError(sqlIn)
    /\ sqlIn.TableName # <<>>
    /\ sqlIn.ColumnName # <<>>
    /\ sqlIn.ConstraintName # <<>>
    /\ sqlOut.Status = StatusInternalServerError

\* C11: every error response of status 500 that GlobalErrorHandler writes
\* carries the fixed generic message, whichever error reached it.
C11_InternalErrorsAreGeneric ==
    (gehPc = "handled" /\ gehBody # NoBody
        /\ gehBody.Status = StatusInternalServerError) =>
            gehBody.Message = StatusText(StatusInternalServerError)

\* a driver error, as HandleError finds it in err's chain
DriverErrorOf(err) ==
    IF ErrorsAs(err, "HTTPError") = NilError THEN ErrorsAs(err, "PgError") ELSE NilError

\* the violation kind of the driver error in err's chain
KindOf(err) == MapCode(DriverErrorOf(err).Code)

\* the constraint names that follow a recognized convention for table t and
\* column c
ConventionNames(t, c) ==
    {S_unique_prefix \o t \o S_underscore \o c,
     t \o S_underscore \o c \o S_key_suffix,
     t \o S_underscore \o c \o S_ukey_suffix}

\* C12: for every unique violation whose constraint name follows a
\* recognized convention for some table and some column, the message
\* HandleError returns holds the humanized full column name in place of the
\* word "identifier".
C12_UniqueMessageNamesColumn ==
    (sqlPc \in {"classified", "reclassified"}
        /\ DriverErrorOf(sqlIn) # NilError
        /\ KindOf(sqlIn) = UniqueViolation) =>
            \A tbl \in TableNames \ {<<>>} : \A col \in ColumnNames \ {<<>>} :
                DriverErrorOf(sqlIn).ConstraintName \in ConventionNames(tbl, col) =>
                    /\ Contains(sqlOut.Message, humanizeText(col))
                    /\ ~Contains(sqlOut.Message, S_identifier)

\* the texts the end-to-end scenario of a colliding email names
E_USER_ALREADY_EXISTS ==
    <<"U", "S", "E", "R", "_", "A", "L", "R", "E", "A", "D", "Y", "_", "E", "X", "I", "S", "T", "S">>
E_A_user_with_this_Email ==
    <<"A", " ", "u", "s", "e", "r", " ", "w", "i", "t", "h", " ", "t", "h", "i", "s", " ", "E", "m", "a", "i", "l", " ", "a", "l", "r", "e", "a", "d", "y", " ", "e", "x", "i", "s", "t", "s">>

\* the driver error of a create-user request whose email collides: a unique
\* violation on table users, constraint unique_users_email, no column
CollidingEmail == PgError("23505", M_driver_text, T_users, <<>>, K_unique_users_email)

\* C13: when a handler returns the unique violation of unique_users_email
\* on table users, the response GlobalErrorHandler writes has status 400,
\* override=true, code USER_ALREADY_EXISTS and a message containing
\* "A user with this Email already exists".
C13_CollidingEmailResponse ==
    \A r \in Requests :
        (handlerOut[r] = Return(CollidingEmail) /\ errorBody[r] # NoBody) =>
            /\ errorBody[r].Status = StatusBadRequest
            /\ errorBody[r].Override = TRUE
            /\ errorBody[r].Code = E_USER_ALREADY_EXISTS
            /\ Contains(errorBody[r].Message, E_A_user_with_this_Email)

\* C14: for every not-null violation HandleError returns a 400 Application
\* Error whose field errors are exactly one entry, the lowercased column
\* name of the driver error with the reason "is required".
C14_NotNullFieldError ==
    (sqlPc \in {"classified", "reclassified"}
        /\ DriverErrorOf(sqlIn) # NilError
        /\ KindOf(sqlIn) = NotNullViolation) =>
            /\ sqlOut.type = "HTTPError"
            /\ sqlOut.Status = StatusBadRequest
            /\ Len(sqlOut.Errors) = 1
            /\ sqlOut.Errors[1].Field = ToLower(DriverErrorOf(sqlIn).ColumnName)
            /\ sqlOut.Errors[1].Error = S_is_required

\* C14 witness: a not-null violation on a column spelled with capital
\* letters has been classified.
C14_Witness ==
    /\ sqlPc = "classified"
    /\ sqlIn.type = "PgError"
    /\ KindOf(sqlIn) = NotNullViolation
    /\ sqlIn.ColumnName = C_Created_At
    /\ sqlOut.Errors = <<FieldError(ToLower(C_Created_At), S_is_required)>>

\* the four constraint violations HandleError tells apart
ConstraintKinds == {ForeignKeyViolation, UniqueViolation, NotNullViolation, CheckViolation}

\* the domain token of a table name: upper case, one trailing "S" dropped
\* when more than one character long, "RECORD" for the empty name
DomainToken(table) ==
    LET upper == ToUpper(table)
    IN  IF table = <<>> THEN S_RECORD
        ELSE IF Len(upper) > 1 /\ upper[Len(upper)] = "S"
        THEN SubSeq(upper, 1, Len(upper) - 1)
        ELSE upper

\* the action token of a violation kind
ActionToken(kind) ==
    CASE kind = ForeignKeyViolation -> S_NOT_FOUND
      [] kind = UniqueViolation     -> S_ALREADY_EXISTS
      [] kind = NotNullViolation    -> S_REQUIRED
      [] kind = CheckViolation      -> S_INVALID

\* C15: for every driver error classified as a foreign-key, unique,
\* not-null or check violation, the code of the Application Error
\* HandleError returns is the domain token of the table, "_", and the action
\* token of the kind.
C15_CodeIsDomainAndAction ==
    (sqlPc \in {"classified", "reclassified"}
        /\ DriverErrorOf(sqlIn) # NilError
        /\ KindOf(sqlIn) \in ConstraintKinds) =>
            sqlOut.Code = DomainToken(DriverErrorOf(sqlIn).TableName)
                            \o S_underscore \o ActionToken(KindOf(sqlIn))

\* C15 witness: a unique violation on table users has been classified with
\* the code USER_ALREADY_EXISTS.
C15_Witness ==
    /\ sqlPc = "classified"
    /\ sqlIn.type = "PgError"
    /\ KindOf(sqlIn) = UniqueViolation
    /\ sqlIn.TableName = T_users
    /\ sqlOut.Code = E_USER_ALREADY_EXISTS

\* C16: HandleError gives every driver error a status that its violation
\* kind alone determines: 400 for a foreign-key, unique, not-null or check
\* violation, 500 for every other driver error.
C16_StatusByViolationKind ==
    (sqlPc \in {"classified", "reclassified"} /\ DriverErrorOf(sqlIn) # NilError) =>
        /\ sqlOut.type = "HTTPError"
        /\ sqlOut.Status =
                IF KindOf(sqlIn) \in ConstraintKinds
                THEN StatusBadRequest
                ELSE StatusInternalServerError

\* C16 witness: a foreign-key violation naming a table and a column has
\* been classified as a 400.
C16_Witness ==
    /\ sqlPc = "classified"
    /\ sqlIn.type = "PgError"
    /\ KindOf(sqlIn) = ForeignKeyViolation
    /\ sqlIn.TableName = T_posts
    /\ sqlIn.ColumnName = C_user_id
    /\ sqlOut.Status = StatusBadRequest

\* err matches a no-rows sentinel and is neither an Application Error nor a
\* driver error
IsNoRowsError(err) ==
    /\ ErrorsAs(err, "HTTPError") = NilError
    /\ ErrorsAs(err, "PgError") = NilError
    /\ (ErrorsIs(err, PgxErrNoRows) \/ ErrorsIs(err, SqlErrNoRows))

\* the table token of an error text: what stands between the first table
\* marker and the next colon, <<>> when the text holds no marker
TableToken(text) ==
    LET at == Index(text, S_table_prefix)
        after == SubSeq(text, at + Len(S_table_prefix), Len(text))
        colon == Index(after, S_colon)
    IN  IF at = 0 THEN <<>>
        ELSE IF colon = 0 THEN after
        ELSE SubSeq(after, 1, colon - 1)

\* C17: for every error that matches a no-rows sentinel HandleError returns
\* a 404 Application Error, with the message "{Entity} not found" when the
\* error text holds the table marker and a table token, and with the
\* message "Resource not found" when no table token can be extracted.
C17_NoRowsIs404 ==
    (sqlPc \in {"classified", "reclassified"} /\ IsNoRowsError(sqlIn)) =>
        /\ sqlOut.type = "HTTPError"
        /\ sqlOut.Status = StatusNotFound
        /\ sqlOut.Message =
                IF TableToken(ErrorText(sqlIn)) # <<>>
                THEN getEntityName(TableToken(ErrorText(sqlIn)), <<>>) \o S_not_found_suffix
                ELSE S_Resource_not_found

\* the code of a 400 Application Error that was given no code of its own
E_BAD_REQUEST ==
    <<"B", "A", "D", "_", "R", "E", "Q", "U", "E", "S", "T">>

\* what BindAndValidate returns for a payload whose validation reports one
\* "required" violation, on the field Email
MissingEmail ==
    BindAndValidate(NilError,
        ValidationErrors(<<TagViolation(F_Email, S_tag_required, <<>>, "string")>>))

\* the response written for a request whose validation reported the single
\* "required" violation on email: status 400, the one field error, and no
\* call of the business handler
MissingEmailResponse(r) ==
    /\ errorBody[r].Status = StatusBadRequest
    /\ errorBody[r].Errors = <<[Field |-> F_email, Error |-> S_is_required]>>
    /\ PhaseCount(r, "handler") = 0

\* C18 as stated: the response of such a request has status 400, the field
\* errors [{email, is required}], no call of the business handler, and a
\* machine code that identifies a validation failure, that is, a code other
\* than the one a 400 that is no validation failure carries.
C18_MissingEmailResponseIdentifiesValidation ==
    \A r \in Requests :
        (validation[r] = MissingEmail /\ errorBody[r] # NoBody) =>
            /\ MissingEmailResponse(r)
            /\ errorBody[r].Code # BindFailed(ErrorString(B_syntax)).err.Code

\* C18 amended: the response of such a request has status 400, the field
\* errors [{email, is required}], no call of the business handler, the
\* message "Validation failed", override=true and the machine code
\* BAD_REQUEST.
C18_MissingEmailResponseIsBadRequest ==
    \A r \in Requests :
        (validation[r] = MissingEmail /\ errorBody[r] # NoBody) =>
            /\ MissingEmailResponse(r)
            /\ errorBody[r].Code = E_BAD_REQUEST
            /\ errorBody[r].Message = S_Validation_failed
            /\ errorBody[r].Override = TRUE

\* C18 witness: a request without an email has been answered with an error
\* response and served to its end.
C18_Witness ==
    \E r \in Requests :
        /\ validation[r] = MissingEmail
        /\ ~body[r]["Email"]
        /\ errorBody[r] # NoBody
        /\ pc[r] = "done"

\* a status code an HTTP response can carry: three digits, 100 to 599
IsHTTPStatus(status) == status \in 100..599

\* C19: every Application Error that reaches GlobalErrorHandler, and every
\* error response body GlobalErrorHandler writes for any error value reaching
\* it, framework HTTP errors of any status code included, has a non-empty
\* machine code and a status that is a valid HTTP status code.
C19_CodeNonEmptyAndStatusValid ==
    gehPc = "handled" =>
        /\ ErrorsAs(gehErr, "HTTPError") # NilError =>
              /\ ErrorsAs(gehErr, "HTTPError").Code # <<>>
              /\ IsHTTPStatus(ErrorsAs(gehErr, "HTTPError").Status)
        /\ gehBody # NoBody =>
              /\ gehBody.Code # <<>>
              /\ IsHTTPStatus(gehBody.Status)

\* the fields of an error response body taken from an Application Error
BodyOf(httpErr) ==
    [Code |-> httpErr.Code, Message |-> httpErr.Message,
     Status |-> httpErr.Status, Override |-> httpErr.Override,
     Errors |-> httpErr.Errors, Action |-> httpErr.Action]

\* C20: for every error that reaches GlobalErrorHandler, HandleError is
\* applied at most once, and never to an error that already is an Application
\* Error or a framework HTTP error; an Application Error reaches the response
\* with its code, status, message, field errors and action unchanged.
C20_ClassifiedOnceAndNeverRewrapped ==
    gehPc = "handled" =>
        /\ Len(gehClassified) <= 1
        /\ \A i \in 1..Len(gehClassified) : gehClassified[i] = gehErr
        /\ (\/ ErrorsAs(gehErr, "HTTPError") # NilError
            \/ ErrorsAs(gehErr, "echo.HTTPError") # NilError)
              => gehClassified = <<>>
        /\ (ErrorsAs(gehErr, "HTTPError") # NilError /\ gehBody # NoBody)
              => gehBody = BodyOf(ErrorsAs(gehErr, "HTTPError"))

\* C20 witness: the Application Error BindAndValidate built for a failed
\* validation has been written to the response, with its field errors, and
\* HandleError was not applied to it.
C20_Witness ==
    /\ gehPc = "handled"
    /\ gehErr \in ValidationFailures
    /\ gehErr.Errors # NilFieldErrors
    /\ gehClassified = <<>>
    /\ gehBody = BodyOf(gehErr)

\* the identity RequireAuth stores for the session claims of a token
IdentityOf(ctx, claims) ==
    /\ ctx.user_id = claims.Subject
    /\ ctx.user_role = claims.ActiveOrganizationRole
    /\ ctx.permissions = claims.ActiveOrganizationPermissions

\* C21: on a route protected by RequireAuth the next handler is invoked only
\* after user_id, user_role and permissions were stored in the context from
\* the claims of a verified token; when there are no session claims the next
\* handler is never invoked and the request ends with a 401.
C21_NextOnlyWithIdentity ==
    /\ \A i \in 1..Len(mwNext) :
          /\ mwRequest.authorization.present
          /\ mwRequest.authorization.verifies
          /\ mwNext[i].claims = mwRequest.authorization.claims
          /\ IdentityOf(mwNext[i], mwRequest.authorization.claims)
    /\ (mwPc = "done" /\ mwContext.claims = NoClaims) =>
          /\ mwNext = <<>>
          /\ mwResponse = StatusUnauthorized

\* C21 witness: the next handler has run with the identity of a verified
\* token in the context.
C21_Witness ==
    /\ mwPc = "done"
    /\ Len(mwNext) = 1
    /\ mwNext[1].user_id = J_user_1
    /\ mwNext[1].permissions = <<J_perm_read, J_perm_manage>>

\* C27: once RequestID has run, the request ID in the context is non-empty,
\* is the incoming X-Request-ID header when that was non-empty and a
\* generated ID otherwise, and is the X-Request-ID header of the response;
\* every handler further down the chain is invoked with it.
C27_RequestIDSet ==
    mwPc \notin {"idle", "RequestID"} =>
        /\ GetRequestID(mwContext) # <<>>
        /\ mwRequest.requestID # <<>> => GetRequestID(mwContext) = mwRequest.requestID
        /\ mwRequest.requestID = <<>> => GetRequestID(mwContext) \in GeneratedIDs
        /\ mwHeader = GetRequestID(mwContext)
        /\ \A i \in 1..Len(mwNext) :
              GetRequestID(mwNext[i]) = GetRequestID(mwContext)

\* C27 witness: a request that came with an X-Request-ID has passed
\* RequestID and carries that ID in its context and its response header.
C27_Witness ==
    /\ mwPc = "WithHeaderAuthorization"
    /\ mwRequest.requestID = H_req_42
    /\ GetRequestID(mwContext) = H_req_42
    /\ mwHeader = H_req_42

\* C22: what handleRequest does (whether the business handler is invoked,
\* which error is returned, which response is written) is the same with a
\* trace transaction in the request context and without one; without one it
\* makes no call on the tracing collaborator, and the calls it makes return
\* no value.
C22_TracingDoesNotChangeOutcome ==
    /\ hrCalls[FALSE] = <<>>
    /\ \A txn \in BOOLEAN : \A i \in 1..Len(hrCalls[txn]) :
          hrCalls[txn][i].method \in {"AddAttribute", "NoticeError"}
    /\ (hrPc[TRUE] = "done" /\ hrPc[FALSE] = "done") =>
          /\ hrHandler[TRUE] = hrHandler[FALSE]
          /\ hrRet[TRUE] = hrRet[FALSE]
          /\ hrWriter[TRUE] = hrWriter[FALSE]
          /\ hrResponse[TRUE] = hrResponse[FALSE]

\* C22 witness: both runs of a file download have ended with the response
\* written, the one with a transaction having reported the file size to it.
C22_Witness ==
    /\ hrPc[TRUE] = "done"
    /\ hrPc[FALSE] = "done"
    /\ hrResponse[FALSE] = StatusOK
    /\ \E i \in 1..Len(hrCalls[TRUE]) :
          hrCalls[TRUE][i] = AddAttribute("file.size_bytes")

\* C30: on a route registered through HandleFile, whenever the file
\* strategy's Handle is invoked the result it is handed is a byte sequence,
\* a nil byte slice included, so its type assertion does not panic; and it
\* is invoked only when the handler returned no error.
C30_FileResultIsBytes ==
    \A txn \in BOOLEAN :
        (hrEnv.route.kind = "file" /\ hrWriter[txn].out # NoCall) =>
            /\ hrWriter[txn].result.dynType = "[]byte"
            /\ hrWriter[txn].out.kind # "panic"
            /\ hrHandler[txn] = Return(NilError)

\* C30 witness: a file handler returned a nil byte slice and the strategy
\* wrote the response.
C30_Witness ==
    /\ hrEnv.route.kind = "file"
    /\ hrEnv.value = "nil"
    /\ hrWriter[TRUE].out = Return(NilError)
    /\ hrWriter[TRUE].result.value = "nil"
    /\ hrResponse[TRUE] = StatusOK

\* every dependency check CheckHealth ran has passed
AllChecksPass ==
    /\ hcEnv.dbPing = NilError
    /\ hcEnv.redis => hcEnv.redisPing = NilError

\* C23: CheckHealth answers 200 with overall status "healthy" if and only if
\* the database ping and, when a Redis client exists, the Redis ping pass;
\* if any check fails it answers 503 with overall status "unhealthy".
C23_HealthyIffAllChecksPass ==
    hcPc = "done" =>
        /\ (hcResponse.Status = StatusOK /\ hcResponse.status = S_healthy)
              <=> AllChecksPass
        /\ ~AllChecksPass =>
              /\ hcResponse.Status = StatusServiceUnavailable
              /\ hcResponse.status = S_unhealthy

\* C24: for every request whose handler chain returned an error while the
\* response was not committed, the status in the RequestLogger's "API" line,
\* and the level derived from it, are those of the status GlobalErrorHandler
\* then writes for that error, whatever kind of error it is.
C24_LoggedStatusIsWrittenStatus ==
    (gehPc = "handled" /\ gehLog # NoLog /\ gehBody # NoBody) =>
        /\ gehLog.status = gehBody.Status
        /\ gehLog.level = LogLevel(gehBody.Status)

E_NOT_FOUND ==
    <<"N", "O", "T", "_", "F", "O", "U", "N", "D">>
E_Route_not_found ==
    <<"R", "o", "u", "t", "e", " ", "n", "o", "t", " ", "f", "o", "u", "n", "d">>
E_TOO_MANY_REQUESTS ==
    <<"T", "O", "O", "_", "M", "A", "N", "Y", "_", "R", "E", "Q", "U", "E", "S", "T", "S">>
E_Rate_limit_exceeded ==
    <<"R", "a", "t", "e", " ", "l", "i", "m", "i", "t", " ", "e", "x", "c", "e", "e", "d", "e", "d">>

\* the framework error in the chain of the error GlobalErrorHandler was
\* handed, NilError when there is none or when the error is an Application
\* Error
FrameworkErrorOf(err) ==
    IF ErrorsAs(err, "HTTPError") # NilError THEN NilError
    ELSE ErrorsAs(err, "echo.HTTPError")

\* C26: for a framework HTTP error that is no Application Error, a 404 is
\* written as status 404, code NOT_FOUND, message "Route not found"; any
\* other status is kept, with the code made of its status text in upper case
\* with underscores and the message of the framework error (its text, or
\* the status text when it carries no text), so that a rate-limit denial
\* gives 429, TOO_MANY_REQUESTS, "Rate limit exceeded"; override is false
\* and the database classifier is not applied.
C26_FrameworkErrorResponse ==
    (gehPc = "handled" /\ FrameworkErrorOf(gehErr) # NilError) =>
        /\ gehClassified = <<>>
        /\ gehBody # NoBody =>
              /\ gehBody.Override = FALSE
              /\ IF FrameworkErrorOf(gehErr).Code = StatusNotFound
                 THEN /\ gehBody.Status = StatusNotFound
                      /\ gehBody.Code = E_NOT_FOUND
                      /\ gehBody.Message = E_Route_not_found
                 ELSE /\ gehBody.Status = FrameworkErrorOf(gehErr).Code
                      /\ gehBody.Code = MakeUpperCaseWithUnderscores(
                                            StatusText(FrameworkErrorOf(gehErr).Code))
                      /\ gehBody.Message =
                            IF FrameworkErrorOf(gehErr).isString
                            THEN FrameworkErrorOf(gehErr).Message
                            ELSE StatusText(FrameworkErrorOf(gehErr).Code)
              /\ gehErr = RateLimitDenial =>
                    /\ gehBody.Status = StatusTooManyRequests
                    /\ gehBody.Code = E_TOO_MANY_REQUESTS
                    /\ gehBody.Message = E_Rate_limit_exceeded

\* C26 witness: the rate limiter's denial has been written to the response.
C26_Witness ==
    /\ gehPc = "handled"
    /\ gehErr = RateLimitDenial
    /\ gehBody # NoBody
    /\ gehBody.Code = E_TOO_MANY_REQUESTS

\* New has returned
NewIsOver == srvPc[1] \in {"main", "Shutdown"} /\ srvPc # <<"main", "start">>

\* C25: New proceeds and returns a Server without error when the Redis ping
\* fails, and returns an error and no Server when the initialization of the
\* database, its ping included, fails or the job worker server fails to
\* start.
C25_AsymmetricStartup ==
    NewIsOver =>
        /\ (srvEnv.database # NilError \/ srvEnv.jobStart # NilError) =>
              /\ srvNewErr # NilError
              /\ srvServer = NoServer
        /\ (srvEnv.database = NilError /\ srvEnv.jobStart = NilError) =>
              /\ srvNewErr = NilError
              /\ srvServer # NoServer

\* C25 witness: New has returned a Server although the Redis ping failed.
C25_Witness ==
    /\ NewIsOver
    /\ srvEnv.redisPing # NilError
    /\ srvServer # NoServer
    /\ srvNewErr = NilError

\* the place of a step among the steps performed, 0 when it was not
RECURSIVE PlaceOf(_, _, _)
PlaceOf(step, log, i) ==
    IF i > Len(log) THEN 0
    ELSE IF log[i] = step THEN i
    ELSE PlaceOf(step, log, i + 1)

\* C28: in every execution of New the package-level email client is
\* initialized (InitHandlers) before the job worker server is started
\* (Start), so no welcome-email task is handled while the client is nil.
C28_HandlersInitializedBeforeStart ==
    /\ PlaceOf("Start", srvLog, 1) # 0 =>
          /\ PlaceOf("InitHandlers", srvLog, 1) # 0
          /\ PlaceOf("InitHandlers", srvLog, 1) < PlaceOf("Start", srvLog, 1)
    /\ srvWorker => emailClient # "nil"
    /\ \A i \in 1..Len(srvTasks) : srvTasks[i] # "panic"

\* C28 witness: the worker started by New has sent a welcome email.
C28_Witness ==
    /\ PlaceOf("Start", srvLog, 1) # 0
    /\ Len(srvTasks) >= 1
    /\ srvTasks[1] = "sent"

\* C29: Shutdown performs its steps in the order HTTP server shutdown,
\* database pool close, job service stop; when the HTTP server shutdown
\* fails it returns that error at once and neither closes the pool nor stops
\* the job service; it returns nil only after all the steps were performed.
C29_ShutdownOrder ==
    /\ IsPrefix(srvShutLog, <<"httpServer", "DB", "Job">>)
    /\ (srvShutLog # <<>> /\ srvEnv.httpShutdown # NilError) =>
          /\ srvShutLog = <<"httpServer">>
          /\ srvShutRet =
                Return(Wrapped(P_failed_to_shutdown_HTTP_server, srvEnv.httpShutdown))
          /\ srvWorker
    /\ srvShutRet = Return(NilError) =>
          /\ srvShutLog = <<"httpServer", "DB">>
                          \o (IF srvServer.Job THEN <<"Job">> ELSE <<>>)
          /\ ~srvWorker

\* C29 witness: Shutdown has returned nil after its three steps.
C29_Witness ==
    /\ srvShutRet = Return(NilError)
    /\ srvShutLog = <<"httpServer", "DB", "Job">>
    /\ srvPc = <<"main", "exit">>

=============================================================================
